---------------------------- MODULE Spec2Model ----------------------------
(***************************************************************************)
(* Keyword Intelligence Aggregation Engine of trendible-backend.           *)
(*                                                                         *)
(* The module holds three state machines over one set of variables:        *)
(*   SpecRetry   - withRetry / handleApiError                              *)
(*                 (src/src/utils/dataForSEOErrorHandlers.ts)              *)
(*   SpecIntel   - getKeywordIntelligence and its source adapters          *)
(*                 (src/src/services/researchService.ts, and the           *)
(*                 multi-source version src/unnamed/part_004)              *)
(*   SpecTimeout - one HTTP request through requestTimeout and the         *)
(*                 research controller (src/unnamed/part_010,              *)
(*                 src/src/controllers/researchController.ts)              *)
(* Each specification leaves the variables of the others unchanged.        *)
(***************************************************************************)
EXTENDS Integers, Sequences, FiniteSets, TLC

VARIABLES
    \* ---- withRetry (one call) ----
    maxRetries,      \* parameter maxRetries
    baseDelay,       \* parameter baseDelay
    attempt,         \* loop variable `attempt`
    rpc,             \* position of the async function
    calls,           \* number of times operation() was invoked
    attemptLog,      \* classification of every finished attempt, in order
    sleeps,          \* the delays passed to sleep(), in order
    retryTotalCost,  \* local `totalCost`
    lastError,       \* local `lastError`
    thrown,          \* the error withRetry rejected with
    validating,      \* whether withRetry was called by executeApiCall
    lastResponse,    \* the response the operation returned in the last attempt
    \* ---- getKeywordIntelligence (one request) ----
    version,         \* "single": researchService.ts, "multi": part_004
    sources,         \* the requested source(s)
    ipc,             \* position of getKeywordIntelligence
    stage,           \* index in StageOrder of the source being handled
    apc,             \* position of every adapter's async function
    locals,          \* locals of getGoogleKeywordData
    adapterOut,      \* the value each adapter resolved with
    adapterErr,      \* the error each adapter rejected with
    inflight,        \* upstream calls issued and not yet answered
    callAttempt,     \* withRetry's attempt of every wrapped call
    resp,            \* the last response of every call
    issuedAfter,     \* per call: the calls already answered when it was issued
    totalCost,       \* local `totalCost`
    sourcesQueried,  \* local `sourcesQueried`
    searchEngines,   \* local `searchEngines`
    result,          \* the value getKeywordIntelligence resolved with
    intelError,      \* the error getKeywordIntelligence rejected with
    warnings,        \* what logWarn recorded
    billed,          \* sum of the cost fields of all responses received
    \* ---- the HTTP request ----
    hpc,             \* position of researchController.getKeywordIntelligence
    timer,           \* the timer of requestTimeout
    headersSent,     \* res.headersSent
    httpResponse,    \* the response that went out
    connection,      \* the client's connection
    \* ---- one application of a pure function ----
    pfn,             \* the function applied
    parg,            \* its argument
    pout,            \* its outcome: the value returned or the error thrown
    pdone,           \* whether it has been applied
    \* ---- refresh tokens of one user ----
    stored,          \* the user's refreshToken column (NoToken for null)
    issued,          \* how many refresh tokens were generated: tokens 1..issued
    delivered,       \* the tokens a client has received
    rfpc,            \* position of each refreshToken request
    presented,       \* the token in the body of each refreshToken request
    userFound,       \* whether findUserByRefreshToken returned the user
    generated,       \* the refresh token each request generated
    startedBefore,   \* whether the request arrived before the logout/reset responded
    ivpc,            \* position of the logout or resetPassword request
    ivkind,          \* "logout" or "reset"
    issuedBefore,    \* the tokens generated before the logout/reset responded
    \* BatchProcessor.processBatch
    finalConfig,     \* maxBatchSize, maxConcurrency, retryAttempts of the call
    batchItems,      \* the items argument: the priority of each item, its id is its index
    sortedItems,     \* the ids in the order items.sort leaves them
    chunkStart,      \* the loop variable i
    bpc,             \* position of processBatch
    itempc,          \* position of each item's async closure
    itemAttempts,    \* attempts of each item's closure
    inFlight,        \* processor invocations of each item that have not settled
    invoked,         \* how often the processor was invoked for each item
    fulfilled,       \* whether an invocation of the item has resolved with data
    invokedAfterFulfilled, \* whether the processor was invoked after that
    batchResults,    \* results
    batchResponse    \* the returned BatchResponse, or the thrown error

retryVars == <<maxRetries, baseDelay, attempt, rpc, calls, attemptLog, sleeps,
               retryTotalCost, lastError, thrown, validating, lastResponse>>

intelVars == <<version, sources, ipc, stage, apc, locals, adapterOut, adapterErr, inflight,
               callAttempt, resp, issuedAfter, totalCost, sourcesQueried, searchEngines,
               result, intelError, warnings, billed>>

httpVars == <<hpc, timer, headersSent, httpResponse, connection>>

pureVars == <<pfn, parg, pout, pdone>>

authVars == <<stored, issued, delivered, rfpc, presented, userFound, generated, startedBefore,
              ivpc, ivkind, issuedBefore>>

batchVars == <<finalConfig, batchItems, sortedItems, chunkStart, bpc, itempc, itemAttempts,
               inFlight, invoked, fulfilled, invokedAfterFulfilled, batchResults,
               batchResponse>>

vars == <<retryVars, intelVars, httpVars, pureVars, authVars, batchVars>>

-----------------------------------------------------------------------------
(* Bounds of the model *)

MaxRetriesBound == 3
MaxCost == 1

(* Program constants *)

MAX_RETRIES == 3
BASE_DELAY == 1000
MAX_DELAY == 10000

-----------------------------------------------------------------------------
(* Errors an operation can reject with.  `kind` tells which of the fields  *)
(* the JavaScript value carries: error.response (an axios-style error),    *)
(* error.code (a transport error), neither (a plain Error), or an instance *)
(* of DataForSEOError.                                                     *)

HttpStatuses == {400, 401, 402, 404, 429, 500, 501, 502, 503, 504}
TransportCodes == {"ECONNREFUSED", "ENOTFOUND", "ETIMEDOUT", "ECONNABORTED", "EPIPE"}

ResponseError(status, cost) ==
    [kind |-> "response", status |-> status, code |-> "", cost |-> cost,
     message |-> "statusText", retryable |-> FALSE]

CodeError(code) ==
    [kind |-> "code", status |-> 0, code |-> code, cost |-> 0,
     message |-> "raw", retryable |-> FALSE]

PlainError(msg) ==
    [kind |-> "plain", status |-> 0, code |-> "", cost |-> 0,
     message |-> msg, retryable |-> FALSE]

\* the constructor with retryable defaulting to true
DataForSEOErrorRetryable(statusCode, msg, cost) ==
    [kind |-> "DataForSEOError", status |-> statusCode, code |-> "", cost |-> cost,
     message |-> msg, retryable |-> TRUE]

\* new DataForSEOError({statusCode, message, cost}): retryable defaults to false
DataForSEOError(statusCode, msg, cost) ==
    [kind |-> "DataForSEOError", status |-> statusCode, code |-> "", cost |-> cost,
     message |-> msg, retryable |-> FALSE]

OperationErrors ==
    {ResponseError(s, c) : s \in HttpStatuses, c \in 0..MaxCost}
      \cup {CodeError(c) : c \in TransportCodes}
      \cup {PlainError("HTTP error")}
      \cup {DataForSEOError(s, "task failed", c) : s \in {404, 40501}, c \in 0..MaxCost}

NoError == [statusCode |-> 0, message |-> "none", retryable |-> FALSE, cost |-> 0]

\* handleApiError whose `case 401` lacks its own branch and falls into `case 429`
handleApiErrorRetry401(error) ==
    IF error.kind = "DataForSEOError"
    THEN [statusCode |-> error.status, message |-> error.message,
          retryable |-> error.retryable, cost |-> error.cost]
    ELSE IF error.kind = "response"
    THEN [statusCode |-> error.status,
          message |-> CASE error.status \in {401, 402, 429} -> "DataForSEO API rate limit exceeded"
                        [] error.status \in {500, 502, 503, 504} -> "DataForSEO API server error"
                        [] OTHER -> error.message,
          retryable |-> error.status \in {401, 402, 429, 500, 502, 503, 504},
          cost |-> error.cost]
    ELSE [statusCode |-> 500, message |-> "Unknown DataForSEO API error",
          retryable |-> error.code \in {"ECONNREFUSED", "ENOTFOUND", "ETIMEDOUT", "ECONNABORTED"},
          cost |-> 0]

\* handleApiError with one case for the whole 5xx range
handleApiErrorAny5xx(error) ==
    IF error.kind = "DataForSEOError"
    THEN [statusCode |-> error.status, message |-> error.message,
          retryable |-> error.retryable, cost |-> error.cost]
    ELSE IF error.kind = "response"
    THEN [statusCode |-> error.status,
          message |-> CASE error.status = 401 -> "Invalid DataForSEO API credentials"
                        [] error.status = 402 -> "Insufficient DataForSEO API credits"
                        [] error.status = 429 -> "DataForSEO API rate limit exceeded"
                        [] error.status \in 500..599 -> "DataForSEO API server error"
                        [] OTHER -> error.message,
          retryable |-> error.status = 429 \/ error.status \in 500..599,
          cost |-> error.cost]
    ELSE IF error.kind = "code"
    THEN [statusCode |-> 500,
          message |-> CASE error.code \in {"ECONNREFUSED", "ENOTFOUND", "ETIMEDOUT"}
                             -> "DataForSEO API connection failed"
                        [] error.code = "ECONNABORTED" -> "DataForSEO API request timeout"
                        [] OTHER -> "Unknown DataForSEO API error",
          retryable |-> error.code \in {"ECONNREFUSED", "ENOTFOUND", "ETIMEDOUT", "ECONNABORTED"},
          cost |-> 0]
    ELSE [statusCode |-> 500, message |-> "Unknown DataForSEO API error",
          retryable |-> FALSE, cost |-> 0]

\* handleApiError reporting 500 for a response status without a case of its own
handleApiErrorDefault500(error) ==
    IF error.kind = "DataForSEOError"
    THEN [statusCode |-> error.status, message |-> error.message,
          retryable |-> error.retryable, cost |-> error.cost]
    ELSE IF error.kind = "response"
    THEN [statusCode |-> IF error.status \in {401, 402, 429, 500, 502, 503, 504}
                         THEN error.status ELSE 500,
          message |-> CASE error.status = 401 -> "Invalid DataForSEO API credentials"
                        [] error.status = 402 -> "Insufficient DataForSEO API credits"
                        [] error.status = 429 -> "DataForSEO API rate limit exceeded"
                        [] error.status \in {500, 502, 503, 504} -> "DataForSEO API server error"
                        [] OTHER -> error.message,
          retryable |-> error.status \in {429, 500, 502, 503, 504},
          cost |-> error.cost]
    ELSE IF error.kind = "code"
    THEN [statusCode |-> 500,
          message |-> CASE error.code \in {"ECONNREFUSED", "ENOTFOUND", "ETIMEDOUT"}
                             -> "DataForSEO API connection failed"
                        [] error.code = "ECONNABORTED" -> "DataForSEO API request timeout"
                        [] OTHER -> "Unknown DataForSEO API error",
          retryable |-> error.code \in {"ECONNREFUSED", "ENOTFOUND", "ETIMEDOUT", "ECONNABORTED"},
          cost |-> 0]
    ELSE [statusCode |-> 500, message |-> "Unknown DataForSEO API error",
          retryable |-> FALSE, cost |-> 0]

handleApiError(error) ==
    IF error.kind = "DataForSEOError"
    THEN [statusCode |-> error.status, message |-> error.message,
          retryable |-> error.retryable, cost |-> error.cost]
    ELSE IF error.kind = "response"
    THEN [statusCode |-> error.status,
          message |-> CASE error.status = 401 -> "Invalid DataForSEO API credentials"
                        [] error.status = 402 -> "Insufficient DataForSEO API credits"
                        [] error.status = 429 -> "DataForSEO API rate limit exceeded"
                        [] error.status \in {500, 502, 503, 504} -> "DataForSEO API server error"
                        [] OTHER -> error.message,
          retryable |-> error.status \in {429, 500, 502, 503, 504},
          cost |-> error.cost]
    ELSE IF error.kind = "code"
    THEN [statusCode |-> 500,
          message |-> CASE error.code \in {"ECONNREFUSED", "ENOTFOUND", "ETIMEDOUT"}
                             -> "DataForSEO API connection failed"
                        [] error.code = "ECONNABORTED" -> "DataForSEO API request timeout"
                        [] OTHER -> "Unknown DataForSEO API error",
          retryable |-> error.code \in {"ECONNREFUSED", "ENOTFOUND", "ETIMEDOUT", "ECONNABORTED"},
          cost |-> 0]
    ELSE [statusCode |-> 500, message |-> "Unknown DataForSEO API error",
          retryable |-> FALSE, cost |-> 0]

RECURSIVE Pow2(_)
Pow2(n) == IF n = 0 THEN 1 ELSE 2 * Pow2(n - 1)

\* a linear instead of an exponential backoff
BackoffDelayLinear(base, att) == base * (att + 1)

\* const delay = baseDelay * Math.pow(2, attempt)
BackoffDelay(base, att) == base * Pow2(att)

\* the retry decision without the retryable test
ShouldThrowIgnoreRetryable(err, att, maxR) == att = maxR

\* the retry decision without the test of the last attempt
ShouldThrowOnlyTerminal(err, att, maxR) == ~err.retryable

\* if (!dataForSEOError.retryable || attempt === maxRetries) throw
ShouldThrow(err, att, maxR) == (~err.retryable) \/ att = maxR

\* for (...; attempt <= maxRetries; ...)
LoopCond(att, maxR) == att <= maxR

Classify(err) == IF err.retryable THEN "retryable" ELSE "terminal"

-----------------------------------------------------------------------------
(* Upstream responses.  A response is what one fetch() of the provider     *)
(* yields: the HTTP status (httpOk = response.ok) and, when there is a     *)
(* body, the envelope {status_code, status_message, cost, tasks}.          *)
(* competition scores are kept in hundredths (0.55 is 55).                 *)

\* JavaScript null, where a number is expected
Null == -1

Sources == {"google", "bing", "youtube"}
StageOrder == <<"google", "bing", "youtube">>
Procs == {"googleData", "difficulty", "bingData", "bingDifficulty", "youtube"}
Calls == {"keyword", "serp", "paid", "difficulty", "bing", "bingDifficulty", "youtube"}

KeywordPayloads ==
    {[search_volume |-> 12000, competition |-> 55, competition_level |-> "MEDIUM"],
     [search_volume |-> 50, competition |-> 75, competition_level |-> "HIGH"]}
SerpPayloads ==
    {[items |-> <<"organic", "featured_snippet", "featured_snippet">>],
     [items |-> <<"paid", "organic", "paid">>]}
PaidPayloads == {[items |-> <<"paid", "paid", "paid">>], [items |-> <<>>]}
DifficultyPayloads ==
    {[found |-> TRUE, keyword_difficulty |-> 62], [found |-> FALSE, keyword_difficulty |-> 0]}
YoutubePayloads == {[items |-> <<"video", "video">>], [items |-> <<>>]}

Payloads(call) ==
    CASE call = "keyword" -> KeywordPayloads
      [] call \in {"serp", "bing"} -> SerpPayloads
      [] call = "paid" -> PaidPayloads
      [] call \in {"difficulty", "bingDifficulty"} -> DifficultyPayloads
      [] OTHER -> YoutubePayloads

\* a response body: null, or an object whose tasks field is an array, is
\* missing (falsy), or is some other value; a task is null or an object
\* whose result is an array or null
Envelope(statusCode, c, tasksKind, tasks) ==
    [httpOk |-> TRUE, httpStatus |-> 200, isNull |-> FALSE, status_code |-> statusCode,
     status_message |-> IF statusCode = 20000 THEN "Ok." ELSE "Error",
     cost |-> c, tasksKind |-> tasksKind, tasks |-> tasks]

NullEnvelope ==
    [httpOk |-> TRUE, httpStatus |-> 200, isNull |-> TRUE, status_code |-> 0,
     status_message |-> "", cost |-> 0, tasksKind |-> "missing", tasks |-> <<>>]

Task(statusCode, c, resultKind, res) ==
    [isNull |-> FALSE, status_code |-> statusCode,
     status_message |-> IF statusCode = 20000 THEN "Ok." ELSE "Invalid Field",
     cost |-> c, resultKind |-> resultKind, result |-> res]

NullTask ==
    [isNull |-> TRUE, status_code |-> 0, status_message |-> "", cost |-> 0,
     resultKind |-> "null", result |-> <<>>]

OkEnvelope(c, payload) ==
    Envelope(20000, c, "array", <<Task(20000, c, "array", <<payload>>)>>)

\* the envelope is fine, its first task failed (result: null)
TaskFailedEnvelope(c) ==
    Envelope(20000, c, "array", <<Task(40501, c, "null", <<>>)>>)

\* HTTP 200 with a failing top-level status and no tasks
EnvFailedEnvelope(c) == Envelope(40000, c, "array", <<>>)

\* a non-2xx answer: response.ok is false, the body is never read
HttpErrorResponse(status) ==
    [httpOk |-> FALSE, httpStatus |-> status, isNull |-> FALSE, status_code |-> 0,
     status_message |-> "", cost |-> 0, tasksKind |-> "array", tasks |-> <<>>]

NoResp ==
    [httpOk |-> FALSE, httpStatus |-> 0, isNull |-> FALSE, status_code |-> 0,
     status_message |-> "pending", cost |-> 0, tasksKind |-> "array", tasks |-> <<>>]

Responses(call) ==
    {OkEnvelope(c, p) : c \in 1..MaxCost, p \in Payloads(call)}
      \cup {TaskFailedEnvelope(c) : c \in 1..MaxCost}
      \cup {EnvFailedEnvelope(c) : c \in 1..MaxCost}
      \cup {HttpErrorResponse(s) : s \in {402, 429}}

-----------------------------------------------------------------------------
(* Results of code that may throw: the value, or the thrown JavaScript     *)
(* value (in the representation of OperationErrors).                       *)

NoThrown ==
    [kind |-> "none", status |-> 0, code |-> "", cost |-> 0, message |-> "",
     retryable |-> FALSE]

Value(v) == [threw |-> FALSE, value |-> v, error |-> NoThrown]
Threw(e) == [threw |-> TRUE, value |-> <<>>, error |-> e]

\* the DataForSEOError instance handleApiError built, as a thrown value
AsThrown(d) ==
    [kind |-> "DataForSEOError", status |-> d.statusCode, code |-> "", cost |-> d.cost,
     message |-> d.message, retryable |-> d.retryable]

\* createHttpClient().post: throws new Error(`HTTP ${response.status}: ...`), an
\* Error without response and without code, when !response.ok
PostResult(r) ==
    IF ~r.httpOk THEN Threw(PlainError("HTTP " \o ToString(r.httpStatus))) ELSE Value(r)

\* one attempt of withRetry(() => client.post(...)): return, throw or retry
WithRetryOutcome(r, att) ==
    LET p == PostResult(r) IN
      IF ~p.threw THEN [kind |-> "return", error |-> NoThrown]
      ELSE LET d == handleApiError(p.error) IN
             IF ShouldThrow(d, att, MAX_RETRIES)
             THEN [kind |-> "throw", error |-> AsThrown(d)]
             ELSE [kind |-> "retry", error |-> NoThrown]

\* reading a property of null or calling a method a value does not have
TypeError == PlainError("TypeError")

\* !response?.tasks || !Array.isArray(response.tasks) || response.tasks.length === 0
NoTasks(r) == r.isNull \/ r.tasksKind # "array" \/ Len(r.tasks) = 0

TaskFailedMessage(task) ==
    "DataForSEO task failed: " \o task.status_message
        \o " (code: " \o ToString(task.status_code) \o ")"

\* firstTask.result || []
ResultOrEmpty(task) == IF task.resultKind = "array" THEN task.result ELSE <<>>

\* the extractor without the test of the first task's status_code
extractFirstTaskResultsNoStatusCheck(r) ==
    IF NoTasks(r)
    THEN Threw(PlainError("Invalid DataForSEO response: no tasks found"))
    ELSE IF r.tasks[1].isNull THEN Threw(TypeError)
    ELSE Value(ResultOrEmpty(r.tasks[1]))

extractFirstTaskResults(r) ==
    IF NoTasks(r)
    THEN Threw(PlainError("Invalid DataForSEO response: no tasks found"))
    ELSE IF r.tasks[1].isNull THEN Threw(TypeError)
    ELSE IF r.tasks[1].status_code # 20000
    THEN Threw(PlainError(TaskFailedMessage(r.tasks[1])))
    ELSE Value(ResultOrEmpty(r.tasks[1]))

\* DataForSEOExtractors.serpResults: results[0].items when present
serpResults(r) ==
    LET ex == extractFirstTaskResults(r) IN
      IF ex.threw THEN ex
      ELSE IF Len(ex.value) > 0 THEN Value(ex.value[1].items) ELSE Value(<<>>)

RECURSIVE SumTaskCosts(_)
SumTaskCosts(tasks) ==
    IF tasks = <<>> THEN 0 ELSE tasks[1].cost + SumTaskCosts(Tail(tasks))

\* getResponseSummary(response).totalCost = getTotalCost(response); the
\* reduce is over tasks that are objects (a null task throws earlier, in
\* the caller's validation)
getTotalCost(r) ==
    IF r.isNull THEN 0
    ELSE IF r.tasksKind # "array" THEN r.cost
    ELSE SumTaskCosts(r.tasks)

SerpFeatureTypes ==
    {"people_also_ask", "knowledge_graph", "featured_snippet", "local_pack", "shopping",
     "images", "videos", "top_stories", "related_searches", "ai_overview", "answer_box",
     "jobs", "local_services", "reviews"}

FeatureName(type) == IF type = "top_stories" THEN "news" ELSE type

\* the deduplicated features (their order is not modelled)
analyzeSerpFeatures(items) ==
    {FeatureName(items[i]) : i \in {j \in DOMAIN items : items[j] \in SerpFeatureTypes}}

\* for a keyword without an intent word
determineSearchIntent(items) ==
    IF \E i \in DOMAIN items : items[i] = "shopping" THEN "commercial"
    ELSE IF \E i \in DOMAIN items : items[i] = "local_pack" THEN "local"
    ELSE "informational"

analyzePaidCompetition(items) ==
    LET n == Cardinality({i \in DOMAIN items : items[i] = "paid"}) IN
      IF n = 0
      THEN [ads_count |-> 0, competition_level |-> "none",
            insight |-> "No paid competition detected"]
      ELSE [ads_count |-> n,
            competition_level |-> IF n >= 8 THEN "very_high"
                                  ELSE IF n >= 5 THEN "high"
                                  ELSE IF n >= 3 THEN "medium" ELSE "low",
            insight |-> "generated"]

NoPaidData ==
    [ads_count |-> 0, competition_level |-> "none",
     insight |-> "No paid competition data available"]

\* the tiers with inclusive thresholds
CompetitionLevelInclusive(competition) ==
    IF competition >= 70 THEN "high" ELSE IF competition >= 40 THEN "medium" ELSE "low"

CompetitionLevel(competition) ==
    IF competition > 70 THEN "high" ELSE IF competition > 40 THEN "medium" ELSE "low"

Complexity(score) ==
    IF score > 80 THEN "very_hard"
    ELSE IF score > 60 THEN "hard"
    ELSE IF score > 40 THEN "medium"
    ELSE IF score > 20 THEN "moderate" ELSE "easy"

DifficultyUnknown(cost) ==
    [data |-> [difficulty_score |-> Null, complexity |-> "unknown"], cost |-> cost]

\* getKeywordDifficulty / getBingKeywordDifficulty after their fetch: every
\* failure is caught and answered with a null score; they never reject
getKeywordDifficultyResult(r) ==
    IF ~r.httpOk THEN DifficultyUnknown(0)
    ELSE IF r.status_code # 20000 THEN DifficultyUnknown(0)
    ELSE LET cost == IF Len(r.tasks) > 0 THEN r.tasks[1].cost ELSE 0
             found == /\ Len(r.tasks) > 0
                      /\ Len(r.tasks[1].result) > 0
                      /\ r.tasks[1].result[1].found
         IN IF ~found THEN DifficultyUnknown(cost)
            ELSE LET score == r.tasks[1].result[1].keyword_difficulty IN
                   [data |-> [difficulty_score |-> score, complexity |-> Complexity(score)],
                    cost |-> cost]

-----------------------------------------------------------------------------
(* The source adapters, as the steps of their async functions *)

NullPaid == [ads_count |-> Null, competition_level |-> "null", insight |-> "null"]

NoLocals ==
    [keywordResponse |-> NoResp, serpFeatures |-> {}, intent |-> "unknown", paid |-> NullPaid]

\* the value a promise that has not settled stands for
PendingOutput ==
    [data |-> [search_volume |-> 0, competition |-> 0, total_results |-> 0,
               video_count |-> 0, difficulty_score |-> Null, complexity |-> "pending"],
     cost |-> 0]

\* getGoogleKeywordData after the keyword call: its locals
AfterKeyword(r) ==
    [keywordResponse |-> r, serpFeatures |-> {}, intent |-> "unknown", paid |-> NullPaid]

\* the call returned an envelope and the extractor accepted it
SerpSucceeded(r) == (~PostResult(r).threw) /\ (~serpResults(r).threw)

\* the try/catch around searchGoogleOrganic: a failure leaves the locals as they are
AfterSerp(loc, r) ==
    IF SerpSucceeded(r)
    THEN [loc EXCEPT !.serpFeatures = analyzeSerpFeatures(serpResults(r).value),
                     !.intent = determineSearchIntent(serpResults(r).value),
                     !.paid = analyzePaidCompetition(serpResults(r).value)]
    ELSE loc

\* if (!paidCompetitionAnalysis?.paid_competition?.ads_count || ... === 0)
NeedsPaidCall(loc) == loc.paid = NullPaid \/ loc.paid.ads_count = 0

\* the try/catch around searchGooglePaidAds
AfterPaid(loc, r) ==
    IF SerpSucceeded(r)
    THEN [loc EXCEPT !.paid = analyzePaidCompetition(serpResults(r).value)]
    ELSE loc

KeywordDataOf(r) ==
    LET results == extractFirstTaskResults(r).value IN
      IF Len(results) > 0 THEN results[1]
      ELSE [search_volume |-> 0, competition |-> 0, competition_level |-> "unknown"]

\* the value getGoogleKeywordData returns (researchService.ts)
GoogleDataOut(loc) ==
    LET keywordData == KeywordDataOf(loc.keywordResponse) IN
      [data |-> [search_volume |-> keywordData.search_volume,
                 competition |-> keywordData.competition,
                 competition_level |-> CompetitionLevel(keywordData.competition),
                 serp_features |-> loc.serpFeatures,
                 intent |-> loc.intent,
                 paid_competition |-> IF loc.paid = NullPaid THEN NoPaidData ELSE loc.paid],
       cost |-> getTotalCost(loc.keywordResponse)]

\* the value getGoogleKeywordData returns (multi-source version)
MultiGoogleDataOut(loc) ==
    LET keywordData == KeywordDataOf(loc.keywordResponse) IN
      [data |-> [search_volume |-> keywordData.search_volume,
                 competition |-> keywordData.competition,
                 competition_level |-> keywordData.competition_level,
                 serp_features |-> loc.serpFeatures,
                 intent |-> loc.intent],
       cost |-> getTotalCost(loc.keywordResponse)]

\* getBingKeywordData after its fetch
BingOutcome(ver, r) ==
    IF ~r.httpOk THEN Threw(PlainError("HTTP error! status"))
    ELSE LET sr == serpResults(r) IN
      IF sr.threw THEN sr
      ELSE IF ver = "single"
      THEN Value([data |-> [search_volume |-> 0,
                            total_results |-> Len(sr.value),
                            serp_features |-> analyzeSerpFeatures(sr.value),
                            intent |-> determineSearchIntent(sr.value),
                            platform |-> "bing",
                            paid_competition |-> analyzePaidCompetition(sr.value)],
                  cost |-> getTotalCost(r)])
      ELSE Value([data |-> [search_volume |-> 0,
                            total_results |-> Len(sr.value),
                            serp_features |-> analyzeSerpFeatures(sr.value),
                            intent |-> determineSearchIntent(sr.value),
                            platform |-> "bing"],
                  cost |-> getTotalCost(r)])

\* getYouTubeKeywordData after its fetch
YoutubeOutcome(r) ==
    IF ~r.httpOk THEN Threw(PlainError("HTTP error! status"))
    ELSE LET sr == serpResults(r) IN
      IF sr.threw THEN sr
      ELSE Value([data |-> [video_count |-> Len(sr.value), platform |-> "youtube"],
                  cost |-> getTotalCost(r)])

\* {...data, difficulty_score, complexity}: the later keys win
MergeDifficulty(adapter, difficulty) ==
    [difficulty_score |-> difficulty.data.difficulty_score,
     complexity |-> difficulty.data.complexity] @@ adapter.data

generateKeywordSummary(se) ==
    LET hasGoogle == "google" \in DOMAIN se
        totalVolume == IF hasGoogle THEN se["google"].search_volume ELSE 0
        competition == IF hasGoogle THEN se["google"].competition ELSE 0
        overallCompetition ==
            IF ~hasGoogle THEN "unknown" ELSE CompetitionLevel(competition)
        best1 == IF hasGoogle THEN "google" ELSE "unknown"
        bingResultCount == IF "bing" \in DOMAIN se THEN se["bing"].total_results ELSE 0
        best2 == IF "bing" \notin DOMAIN se THEN best1
                 ELSE IF bingResultCount > totalVolume /\ totalVolume > 0 THEN "multi-platform"
                 ELSE IF totalVolume = 0 /\ bingResultCount > 0 THEN "bing"
                 ELSE best1
        videoCount == IF "youtube" \in DOMAIN se THEN se["youtube"].video_count ELSE 0
        bestPlatform ==
            IF "youtube" \in DOMAIN se /\ videoCount > 100
            THEN (IF best2 = "unknown" THEN "youtube" ELSE "multi-platform")
            ELSE best2
        strategy1 ==
            IF overallCompetition = "high" THEN "target long-tail variations"
            ELSE IF overallCompetition = "low" /\ totalVolume > 1000
            THEN "opportunity for quick wins"
            ELSE IF totalVolume < 100 THEN "consider broader keyword variants"
            ELSE "focus on content quality"
    IN [total_volume |-> totalVolume,
        best_platform |-> bestPlatform,
        overall_competition |-> overallCompetition,
        recommended_strategy |-> IF bestPlatform = "multi-platform"
                                 THEN "diversify across multiple platforms"
                                 ELSE strategy1]

-----------------------------------------------------------------------------
(* getKeywordIntelligence: which adapters and calls a request starts *)

Requested(srcs, s) == s \in srcs \/ "all" \in srcs

ProcsOf(ver, s) ==
    IF ver = "single"
    THEN (CASE s = "google" -> {"googleData", "difficulty"}
            [] s = "bing" -> {"bingData", "bingDifficulty"}
            [] OTHER -> {"youtube"})
    ELSE (CASE s = "google" -> {"googleData"}
            [] s = "bing" -> {"bingData"}
            [] OTHER -> {"youtube"})

PrimaryProc(s) ==
    CASE s = "google" -> "googleData" [] s = "bing" -> "bingData" [] OTHER -> "youtube"

FirstCall(p) ==
    CASE p = "googleData" -> "keyword"
      [] p = "bingData" -> "bing"
      [] OTHER -> p

FirstPc(p) == IF p = "googleData" THEN "awaitKeyword" ELSE "awaiting"

AllCallsOf(p) == IF p = "googleData" THEN {"keyword", "serp"} ELSE {FirstCall(p)}

\* every call of the started adapters is issued up front
CallsIssuedAtStartAll(ps) == UNION {AllCallsOf(p) : p \in ps}

\* an adapter that starts runs to its first await: one call each
CallsIssuedAtStart(ps) == {FirstCall(p) : p \in ps}

\* the first stage after stage i that the request asks for (0: none)
NextStageAfter(srcs, i) ==
    LET later == {j \in (i + 1)..Len(StageOrder) : Requested(srcs, StageOrder[j])} IN
      IF later = {} THEN 0 ELSE CHOOSE j \in later : \A k \in later : j <= k

\* sourcesQueried.push(source), also when the adapter failed
PushSourceAlways(sq, s, ok) == Append(sq, s)

\* sourcesQueried.push(source) sits in the success path only
PushSource(sq, s, ok) == IF ok THEN Append(sq, s) ELSE sq

\* searchEngines[source] is assigned whatever the adapter left, also on failure
MultiSearchEnginesAlways(se, s, out, ok) == (s :> out.data) @@ se

\* searchEngines[source] = adapterData.data, in the try block only
MultiSearchEngines(se, s, out, ok) == IF ok THEN (s :> out.data) @@ se ELSE se

\* the first adapter to settle resumes the caller (Promise.race)
JoinReadyRace(status, ps) == \E p \in ps : status[p] \in {"done", "failed"}

\* await Promise.all([...]): rejects with the first rejection, resolves when all did
JoinReady(status, ps) ==
    (\E p \in ps : status[p] = "failed") \/ (\A p \in ps : status[p] = "done")

-----------------------------------------------------------------------------
(* getKeywordIntelligence: one request *)

EmptyMap == [s \in {} |-> Null]

NoResult ==
    [search_engines |-> EmptyMap, sources_queried |-> <<>>, total_cost |-> 0]

SourceSets ==
    [single |-> {{s} : s \in Sources},
     multi |-> ((SUBSET Sources) \ {{}}) \cup {{"all"}}]

IntelIdle ==
    /\ ipc = "idle" /\ stage = 0
    /\ apc = [p \in Procs |-> "idle"]
    /\ locals = NoLocals
    /\ adapterOut = [p \in Procs |-> PendingOutput]
    /\ adapterErr = [p \in Procs |-> NoThrown]
    /\ inflight = {}
    /\ callAttempt = [c \in Calls |-> 0]
    /\ resp = [c \in Calls |-> NoResp]
    /\ issuedAfter = [c \in Calls |-> {}]
    /\ totalCost = 0 /\ sourcesQueried = <<>> /\ searchEngines = EmptyMap
    /\ result = NoResult /\ intelError = NoThrown /\ warnings = {} /\ billed = 0


NoHttpResponse ==
    [status |-> 0, code |-> "none", hasCost |-> FALSE, cost |-> 0, retryable |-> FALSE]

HttpIdle ==
    /\ hpc = "idle" /\ timer = "unset" /\ headersSent = FALSE
    /\ httpResponse = NoHttpResponse /\ connection = "open"

PureIdle == pfn = "none" /\ parg = 0 /\ pout = 0 /\ pdone = FALSE

\* the refreshToken requests of the model
RefreshProcs == {"r1", "r2"}

\* refreshToken: null
NoToken == 0

\* the user has logged in and holds refresh token 1; no request is running
AuthIdle ==
    /\ stored = 1 /\ issued = 1 /\ delivered = {1} /\ issuedBefore = {1}
    /\ rfpc = [p \in RefreshProcs |-> "idle"]
    /\ presented = [p \in RefreshProcs |-> NoToken]
    /\ userFound = [p \in RefreshProcs |-> FALSE]
    /\ generated = [p \in RefreshProcs |-> NoToken]
    /\ startedBefore = [p \in RefreshProcs |-> FALSE]
    /\ ivpc = "idle" /\ ivkind = "none"

\* the largest batch the model processes
MaxItems == 3

ItemIds == 1..MaxItems

\* BatchProcessor.defaultConfig, narrowed to small values
BatchConfigs ==
    [maxBatchSize : {MaxItems - 1, MaxItems}, maxConcurrency : {1, 2}, retryAttempts : {0, 1}]

NoBatchResponse == [kind |-> "none"]

\* processBatch has not been called
BatchIdleWith(config, items) ==
    /\ finalConfig = config /\ batchItems = items
    /\ sortedItems = <<>> /\ chunkStart = 0 /\ bpc = "idle"
    /\ itempc = [id \in ItemIds |-> "waiting"]
    /\ itemAttempts = [id \in ItemIds |-> 0]
    /\ inFlight = [id \in ItemIds |-> 0]
    /\ invoked = [id \in ItemIds |-> 0]
    /\ fulfilled = [id \in ItemIds |-> FALSE]
    /\ invokedAfterFulfilled = [id \in ItemIds |-> FALSE]
    /\ batchResults = <<>> /\ batchResponse = NoBatchResponse

BatchIdle ==
    BatchIdleWith([maxBatchSize |-> MaxItems, maxConcurrency |-> 2, retryAttempts |-> 1], <<>>)

-----------------------------------------------------------------------------
(* executeApiCall: validateResponse of dataForSEOErrorHandlers.ts.  A tasks *)
(* value that is not an array stands for a plain object.                   *)

validateResponse(response) ==
    IF response.isNull
    THEN Threw(DataForSEOError(500, "Empty response from DataForSEO API", 0))
    ELSE IF response.status_code # 20000
    THEN Threw(DataForSEOError(IF response.status_code = 0 THEN 500
                                ELSE response.status_code,
                               response.status_message, response.cost))
    ELSE IF response.tasksKind = "missing"
              \/ (response.tasksKind = "array" /\ Len(response.tasks) = 0)
    THEN Threw(DataForSEOError(404, "No data returned from DataForSEO API", response.cost))
    ELSE IF response.tasksKind = "notArray" THEN Threw(TypeError)
    ELSE IF response.tasks[1].isNull THEN Threw(TypeError)
    ELSE IF response.tasks[1].status_code # 20000
    THEN Threw(DataForSEOError(IF response.tasks[1].status_code = 0 THEN 500
                                ELSE response.tasks[1].status_code,
                               response.tasks[1].status_message, response.cost))
    ELSE Value(TRUE)

\* the responses the operation of executeApiCall returns in the model
ValidatedResponses ==
    {NullEnvelope}
      \cup {EnvFailedEnvelope(c) : c \in 1..MaxCost}
      \cup {Envelope(20000, c, "missing", <<>>) : c \in 1..MaxCost}
      \cup {Envelope(20000, c, "array", <<>>) : c \in 1..MaxCost}
      \cup {TaskFailedEnvelope(c) : c \in 1..MaxCost}
      \cup {OkEnvelope(c, p) : c \in 1..MaxCost, p \in KeywordPayloads}

-----------------------------------------------------------------------------
(* withRetry *)

RetryIdle ==
    /\ attempt = 0 /\ rpc = "idle" /\ calls = 0 /\ attemptLog = <<>> /\ sleeps = <<>>
    /\ retryTotalCost = 0 /\ lastError = NoError /\ thrown = NoError
    /\ lastResponse = NoResp

InitRetry ==
    /\ maxRetries \in 0..MaxRetriesBound
    /\ baseDelay \in {BASE_DELAY, 500, 4000}
    /\ validating \in BOOLEAN
    /\ RetryIdle
    /\ version = "single" /\ sources = {"google"} /\ IntelIdle
    /\ HttpIdle /\ PureIdle /\ AuthIdle /\ BatchIdle

\* withRetry is called: attempt = 0, the loop condition holds, operation() is invoked
RetryStart ==
    /\ rpc = "idle"
    /\ LoopCond(attempt, maxRetries)
    /\ rpc' = "awaiting"
    /\ calls' = calls + 1
    /\ UNCHANGED <<maxRetries, baseDelay, attempt, attemptLog, sleeps,
                   retryTotalCost, lastError, thrown, validating, lastResponse>>
    /\ UNCHANGED <<intelVars, httpVars, pureVars, authVars, batchVars>>

\* `const result = await operation(); return result;`
OperationSucceeds ==
    /\ rpc = "awaiting" /\ ~validating
    /\ rpc' = "returned"
    /\ attemptLog' = Append(attemptLog, "ok")
    /\ UNCHANGED <<maxRetries, baseDelay, attempt, calls, sleeps,
                   retryTotalCost, lastError, thrown, validating, lastResponse>>
    /\ UNCHANGED <<intelVars, httpVars, pureVars, authVars, batchVars>>

\* the catch block, up to the throw or up to `await sleep(delay)`
CatchBlock(error) ==
    LET dataForSEOError == handleApiError(error) IN
      /\ lastError' = dataForSEOError
      /\ retryTotalCost' = retryTotalCost + dataForSEOError.cost
      /\ attemptLog' = Append(attemptLog, Classify(dataForSEOError))
      /\ IF ShouldThrow(dataForSEOError, attempt, maxRetries)
         THEN /\ rpc' = "thrown"
              /\ thrown' = dataForSEOError
              /\ UNCHANGED sleeps
         ELSE /\ rpc' = "sleeping"
              /\ sleeps' = Append(sleeps, BackoffDelay(baseDelay, attempt))
              /\ UNCHANGED thrown

\* operation() rejects
OperationFails ==
    /\ rpc = "awaiting"
    /\ \E error \in OperationErrors : CatchBlock(error)
    /\ lastResponse' = NoResp
    /\ UNCHANGED <<maxRetries, baseDelay, attempt, calls, validating>>
    /\ UNCHANGED <<intelVars, httpVars, pureVars, authVars, batchVars>>

\* executeApiCall: the operation returns a response, validateResponse
\* accepts it (withRetry returns it) or throws (withRetry's catch block)
OperationReturnsResponse ==
    /\ rpc = "awaiting" /\ validating
    /\ \E response \in ValidatedResponses :
         /\ lastResponse' = response
         /\ IF validateResponse(response).threw
            THEN CatchBlock(validateResponse(response).error)
            ELSE /\ rpc' = "returned"
                 /\ attemptLog' = Append(attemptLog, "ok")
                 /\ UNCHANGED <<sleeps, retryTotalCost, lastError, thrown>>
    /\ UNCHANGED <<maxRetries, baseDelay, attempt, calls, validating>>
    /\ UNCHANGED <<intelVars, httpVars, pureVars, authVars, batchVars>>

\* sleep resolves: attempt++, the loop condition is tested, operation() is invoked again
SleepDone ==
    /\ rpc = "sleeping"
    /\ attempt' = attempt + 1
    /\ IF LoopCond(attempt + 1, maxRetries)
       THEN /\ rpc' = "awaiting"
            /\ calls' = calls + 1
            /\ UNCHANGED thrown
       ELSE /\ rpc' = "thrown"          \* `throw lastError!` after the loop
            /\ thrown' = lastError
            /\ UNCHANGED calls
    /\ UNCHANGED <<maxRetries, baseDelay, attemptLog, sleeps, retryTotalCost, lastError,
                   validating, lastResponse>>
    /\ UNCHANGED <<intelVars, httpVars, pureVars, authVars, batchVars>>

NextRetry ==
    \/ RetryStart
    \/ OperationSucceeds
    \/ OperationFails
    \/ OperationReturnsResponse
    \/ SleepDone

SpecRetry == InitRetry /\ [][NextRetry]_vars

-----------------------------------------------------------------------------
(* getKeywordIntelligence and its adapters: the actions *)

\* the calls that have been answered for good
Completed == {c \in Calls : resp[c] # NoResp /\ c \notin inflight}

\* the adapters ps start: each runs synchronously up to its first await
StartAdapters(ps) ==
    /\ apc' = [p \in Procs |-> IF p \in ps THEN FirstPc(p) ELSE apc[p]]
    /\ inflight' = inflight \cup CallsIssuedAtStart(ps)
    /\ issuedAfter' = [c \in Calls |-> IF c \in CallsIssuedAtStart(ps)
                                       THEN Completed ELSE issuedAfter[c]]

\* an adapter issues call `next` right after call `prev` was answered
IssueNext(prev, next) ==
    /\ inflight' = (inflight \ {prev}) \cup {next}
    /\ issuedAfter' = [issuedAfter EXCEPT ![next] = Completed \cup {prev}]

\* single-source version: the switch on `source`, up to `await Promise.all`
IntelStartBody ==
    /\ version = "single" /\ ipc = "idle"
    /\ \E s \in sources :
         /\ StartAdapters(ProcsOf(version, s))
         /\ stage' = CHOOSE i \in DOMAIN StageOrder : StageOrder[i] = s
    /\ ipc' = "awaiting"
    /\ UNCHANGED <<version, sources, locals, adapterOut, adapterErr, callAttempt, resp,
                   totalCost, sourcesQueried, searchEngines, result, intelError,
                   warnings, billed>>

\* multi-source version: up to the await of the first requested adapter
MultiStartBody ==
    /\ version = "multi" /\ ipc = "idle"
    /\ stage' = NextStageAfter(sources, 0)
    /\ StartAdapters(ProcsOf(version, StageOrder[stage']))
    /\ ipc' = "awaiting"
    /\ UNCHANGED <<version, sources, locals, adapterOut, adapterErr, callAttempt, resp,
                   totalCost, sourcesQueried, searchEngines, result, intelError,
                   warnings, billed>>

\* getKeywordDataExtended answers: extractor, then the SERP call is issued
KeywordRespondsBody ==
    /\ "keyword" \in inflight /\ apc["googleData"] = "awaitKeyword"
    /\ \E r \in Responses("keyword") :
         LET o == WithRetryOutcome(r, callAttempt["keyword"])
             ex == extractFirstTaskResults(r)
         IN /\ resp' = [resp EXCEPT !["keyword"] = r]
            /\ billed' = billed + r.cost
            /\ IF o.kind = "retry"
               THEN /\ callAttempt' = [callAttempt EXCEPT !["keyword"] = @ + 1]
                    /\ UNCHANGED <<inflight, issuedAfter, apc, locals, adapterErr>>
               ELSE IF o.kind = "throw" \/ ex.threw
               THEN /\ inflight' = inflight \ {"keyword"}
                    /\ apc' = [apc EXCEPT !["googleData"] = "failed"]
                    /\ adapterErr' = [adapterErr EXCEPT !["googleData"] =
                                         IF o.kind = "throw" THEN o.error ELSE ex.error]
                    /\ UNCHANGED <<callAttempt, issuedAfter, locals>>
               ELSE /\ locals' = AfterKeyword(r)
                    /\ IssueNext("keyword", "serp")
                    /\ apc' = [apc EXCEPT !["googleData"] = "awaitSerp"]
                    /\ UNCHANGED <<callAttempt, adapterErr>>
    /\ UNCHANGED <<version, sources, ipc, stage, adapterOut, totalCost, sourcesQueried,
                   searchEngines, result, intelError, warnings>>

\* searchGoogleOrganic answers (or fails: caught); the paid-ads call is
\* issued when the SERP showed no ads, else the adapter returns
SerpRespondsBody ==
    /\ "serp" \in inflight /\ apc["googleData"] = "awaitSerp"
    /\ \E r \in Responses("serp") :
         LET o == WithRetryOutcome(r, callAttempt["serp"])
             loc == AfterSerp(locals, r)
         IN /\ resp' = [resp EXCEPT !["serp"] = r]
            /\ billed' = billed + r.cost
            /\ IF o.kind = "retry"
               THEN /\ callAttempt' = [callAttempt EXCEPT !["serp"] = @ + 1]
                    /\ UNCHANGED <<inflight, issuedAfter, apc, locals, adapterOut>>
               ELSE /\ locals' = loc
                    /\ UNCHANGED callAttempt
                    /\ IF version = "single" /\ NeedsPaidCall(loc)
                       THEN /\ IssueNext("serp", "paid")
                            /\ apc' = [apc EXCEPT !["googleData"] = "awaitPaid"]
                            /\ UNCHANGED adapterOut
                       ELSE /\ inflight' = inflight \ {"serp"}
                            /\ apc' = [apc EXCEPT !["googleData"] = "done"]
                            /\ adapterOut' = [adapterOut EXCEPT !["googleData"] =
                                   IF version = "single" THEN GoogleDataOut(loc)
                                   ELSE MultiGoogleDataOut(loc)]
                            /\ UNCHANGED issuedAfter
    /\ UNCHANGED <<version, sources, ipc, stage, adapterErr, totalCost, sourcesQueried,
                   searchEngines, result, intelError, warnings>>

\* searchGooglePaidAds answers (or fails: caught); the adapter returns
PaidRespondsBody ==
    /\ "paid" \in inflight /\ apc["googleData"] = "awaitPaid"
    /\ \E r \in Responses("paid") :
         LET o == WithRetryOutcome(r, callAttempt["paid"])
             loc == AfterPaid(locals, r)
         IN /\ resp' = [resp EXCEPT !["paid"] = r]
            /\ billed' = billed + r.cost
            /\ IF o.kind = "retry"
               THEN /\ callAttempt' = [callAttempt EXCEPT !["paid"] = @ + 1]
                    /\ UNCHANGED <<inflight, apc, locals, adapterOut>>
               ELSE /\ locals' = loc
                    /\ inflight' = inflight \ {"paid"}
                    /\ apc' = [apc EXCEPT !["googleData"] = "done"]
                    /\ adapterOut' = [adapterOut EXCEPT !["googleData"] = GoogleDataOut(loc)]
                    /\ UNCHANGED callAttempt
    /\ UNCHANGED <<version, sources, ipc, stage, issuedAfter, adapterErr, totalCost,
                   sourcesQueried, searchEngines, result, intelError, warnings>>

\* the fetch of getKeywordDifficulty / getBingKeywordDifficulty answers
DifficultyRespondsBody(p) ==
    /\ p \in inflight /\ apc[p] = "awaiting"
    /\ \E r \in Responses(p) :
         /\ resp' = [resp EXCEPT ![p] = r]
         /\ billed' = billed + r.cost
         /\ adapterOut' = [adapterOut EXCEPT ![p] = getKeywordDifficultyResult(r)]
    /\ inflight' = inflight \ {p}
    /\ apc' = [apc EXCEPT ![p] = "done"]
    /\ UNCHANGED <<version, sources, ipc, stage, locals, adapterErr, callAttempt,
                   issuedAfter, totalCost, sourcesQueried, searchEngines, result,
                   intelError, warnings>>

\* an adapter of one fetch settles with outcome o
SettleOneFetch(p, call, r, o) ==
    /\ resp' = [resp EXCEPT ![call] = r]
    /\ billed' = billed + r.cost
    /\ inflight' = inflight \ {call}
    /\ IF o.threw
       THEN /\ apc' = [apc EXCEPT ![p] = "failed"]
            /\ adapterErr' = [adapterErr EXCEPT ![p] = o.error]
            /\ UNCHANGED adapterOut
       ELSE /\ apc' = [apc EXCEPT ![p] = "done"]
            /\ adapterOut' = [adapterOut EXCEPT ![p] = o.value]
            /\ UNCHANGED adapterErr

\* the fetch of getBingKeywordData answers
BingRespondsBody ==
    /\ "bing" \in inflight /\ apc["bingData"] = "awaiting"
    /\ \E r \in Responses("bing") :
         SettleOneFetch("bingData", "bing", r, BingOutcome(version, r))
    /\ UNCHANGED <<version, sources, ipc, stage, locals, callAttempt, issuedAfter,
                   totalCost, sourcesQueried, searchEngines, result, intelError, warnings>>

\* the fetch of getYouTubeKeywordData answers
YoutubeRespondsBody ==
    /\ "youtube" \in inflight /\ apc["youtube"] = "awaiting"
    /\ \E r \in Responses("youtube") :
         SettleOneFetch("youtube", "youtube", r, YoutubeOutcome(r))
    /\ UNCHANGED <<version, sources, ipc, stage, locals, callAttempt, issuedAfter,
                   totalCost, sourcesQueried, searchEngines, result, intelError, warnings>>

\* what the single-source version stores as searchEngines[s]
SingleEntry(s, out) ==
    CASE s = "google" -> MergeDifficulty(out["googleData"], out["difficulty"])
      [] s = "bing" -> MergeDifficulty(out["bingData"], out["bingDifficulty"])
      [] OTHER -> out["youtube"].data

\* what the single-source version adds to totalCost
SingleCost(s, out) ==
    CASE s = "google" -> out["googleData"].cost + out["difficulty"].cost
      [] s = "bing" -> out["bingData"].cost + out["bingDifficulty"].cost
      [] OTHER -> out["youtube"].cost

BuildResult(se, sq, tc) ==
    [search_engines |-> se, summary |-> generateKeywordSummary(se),
     sources_queried |-> sq, total_cost |-> tc]

\* single-source version: `await Promise.all([...])` resumes; the branch of
\* the source, the summary and the return, or the catch block's rethrow
IntelJoinBody ==
    /\ version = "single" /\ ipc = "awaiting"
    /\ LET s == StageOrder[stage]
           ps == ProcsOf(version, s)
           failed == {p \in ps : apc[p] = "failed"}
       IN /\ JoinReady(apc, ps)
          /\ IF failed # {}
             THEN /\ ipc' = "thrown"
                  /\ intelError' = adapterErr[CHOOSE p \in failed : TRUE]
                  /\ UNCHANGED <<totalCost, sourcesQueried, searchEngines, result>>
             ELSE /\ ipc' = "returned"
                  /\ searchEngines' = (s :> SingleEntry(s, adapterOut)) @@ searchEngines
                  /\ totalCost' = totalCost + SingleCost(s, adapterOut)
                  /\ sourcesQueried' = PushSource(sourcesQueried, s, TRUE)
                  /\ result' = BuildResult(searchEngines', sourcesQueried', totalCost')
                  /\ UNCHANGED intelError
    /\ UNCHANGED <<version, sources, stage, apc, locals, adapterOut, adapterErr, inflight,
                   callAttempt, resp, issuedAfter, warnings, billed>>

\* multi-source version: the awaited adapter settled; the rest of its
\* try/catch runs, then the next requested adapter starts or the result is built
MultiResumeBody ==
    /\ version = "multi" /\ ipc = "awaiting"
    /\ LET s == StageOrder[stage]
           p == PrimaryProc(s)
           ok == apc[p] = "done"
           nxt == NextStageAfter(sources, stage)
       IN /\ apc[p] \in {"done", "failed"}
          /\ searchEngines' = MultiSearchEngines(searchEngines, s, adapterOut[p], ok)
          /\ totalCost' = IF ok THEN totalCost + adapterOut[p].cost ELSE totalCost
          /\ sourcesQueried' = PushSource(sourcesQueried, s, ok)
          /\ warnings' = IF ok THEN warnings
                         ELSE warnings \cup {[source |-> s, error |-> adapterErr[p]]}
          /\ IF nxt = 0
             THEN /\ ipc' = "returned"
                  /\ result' = BuildResult(searchEngines', sourcesQueried', totalCost')
                  /\ UNCHANGED <<stage, apc, inflight, issuedAfter>>
             ELSE /\ stage' = nxt
                  /\ StartAdapters(ProcsOf(version, StageOrder[nxt]))
                  /\ UNCHANGED <<ipc, result>>
    /\ UNCHANGED <<version, sources, locals, adapterOut, adapterErr, callAttempt, resp,
                   intelError, billed>>

InitIntel ==
    /\ version \in {"single", "multi"}
    /\ sources \in SourceSets[version]
    /\ IntelIdle
    /\ RetryIdle /\ maxRetries = MAX_RETRIES /\ baseDelay = BASE_DELAY /\ validating = FALSE
    /\ HttpIdle /\ PureIdle /\ AuthIdle /\ BatchIdle

IntelStart == IntelStartBody /\ UNCHANGED <<retryVars, httpVars, pureVars, authVars, batchVars>>
MultiStart == MultiStartBody /\ UNCHANGED <<retryVars, httpVars, pureVars, authVars, batchVars>>
KeywordResponds == KeywordRespondsBody /\ UNCHANGED <<retryVars, httpVars, pureVars, authVars, batchVars>>
SerpResponds == SerpRespondsBody /\ UNCHANGED <<retryVars, httpVars, pureVars, authVars, batchVars>>
PaidResponds == PaidRespondsBody /\ UNCHANGED <<retryVars, httpVars, pureVars, authVars, batchVars>>
DifficultyResponds == DifficultyRespondsBody("difficulty") /\ UNCHANGED <<retryVars, httpVars, pureVars, authVars, batchVars>>
BingDifficultyResponds ==
    DifficultyRespondsBody("bingDifficulty") /\ UNCHANGED <<retryVars, httpVars, pureVars, authVars, batchVars>>
BingResponds == BingRespondsBody /\ UNCHANGED <<retryVars, httpVars, pureVars, authVars, batchVars>>
YoutubeResponds == YoutubeRespondsBody /\ UNCHANGED <<retryVars, httpVars, pureVars, authVars, batchVars>>
IntelJoin == IntelJoinBody /\ UNCHANGED <<retryVars, httpVars, pureVars, authVars, batchVars>>
MultiResume == MultiResumeBody /\ UNCHANGED <<retryVars, httpVars, pureVars, authVars, batchVars>>

UpstreamResponds ==
    \/ KeywordResponds
    \/ SerpResponds
    \/ PaidResponds
    \/ DifficultyResponds
    \/ BingDifficultyResponds
    \/ BingResponds
    \/ YoutubeResponds

NextIntel ==
    \/ IntelStart
    \/ MultiStart
    \/ UpstreamResponds
    \/ IntelJoin
    \/ MultiResume

SpecIntel == InitIntel /\ [][NextIntel]_vars

-----------------------------------------------------------------------------
(* One HTTP request: requestTimeout, then researchController               *)

\* the body the timer callback sends with status 504: it has no cost field
TimeoutResponse ==
    [status |-> 504, code |-> "REQUEST_TIMEOUT", hasCost |-> FALSE, cost |-> 0,
     retryable |-> FALSE]

\* res.json({success: true, data: {...intelligenceData}})
SuccessResponse(data) ==
    [status |-> 200, code |-> "OK", hasCost |-> TRUE, cost |-> data.total_cost,
     retryable |-> FALSE]

\* the controller's catch block
ErrorResponse(error) ==
    LET dataForSEOError == handleApiError(error) IN
      [status |-> IF dataForSEOError.statusCode = 0 THEN 500 ELSE dataForSEOError.statusCode,
       code |-> CASE dataForSEOError.statusCode = 402 -> "INSUFFICIENT_CREDITS"
                  [] dataForSEOError.statusCode = 429 -> "RATE_LIMIT_EXCEEDED"
                  [] dataForSEOError.statusCode = 401 -> "INVALID_CREDENTIALS"
                  [] OTHER -> "RESEARCH_ERROR",
       hasCost |-> TRUE, cost |-> dataForSEOError.cost,
       retryable |-> dataForSEOError.retryable]

\* const timeout = setTimeout(..., timeoutMs)
TimerSet == "armed"

InitTimeout ==
    /\ version = "single"
    /\ sources \in SourceSets[version]
    /\ IntelIdle
    /\ RetryIdle /\ maxRetries = MAX_RETRIES /\ baseDelay = BASE_DELAY /\ validating = FALSE
    /\ HttpIdle /\ PureIdle /\ AuthIdle /\ BatchIdle

\* the request passes requestTimeout (timer set, handlers registered, next())
\* and reaches the controller, which runs up to `await getKeywordIntelligence`
RequestArrives ==
    /\ hpc = "idle"
    /\ hpc' = "awaitService"
    /\ timer' = TimerSet
    /\ IntelStartBody
    /\ UNCHANGED <<headersSent, httpResponse, connection, retryVars, pureVars, authVars, batchVars>>

TimeoutCallbackAlwaysWrites(sent) == TRUE

\* if (!res.headersSent)
TimeoutCallbackWrites(sent) == ~sent

\* the timer callback
TimerFires ==
    /\ timer = "armed"
    /\ timer' = "fired"
    /\ IF TimeoutCallbackWrites(headersSent)
       THEN headersSent' = TRUE /\ httpResponse' = TimeoutResponse
       ELSE UNCHANGED <<headersSent, httpResponse>>
    /\ UNCHANGED <<hpc, connection, intelVars, retryVars, pureVars, authVars, batchVars>>

\* res.on('close'): the client went away, clearTimeout
ClientCloses ==
    /\ hpc # "idle" /\ connection = "open"
    /\ connection' = "closed"
    /\ timer' = IF timer = "armed" THEN "cleared" ELSE timer
    /\ UNCHANGED <<hpc, headersSent, httpResponse, intelVars, retryVars, pureVars, authVars, batchVars>>

\* the controller resumes after the service settled and writes its response;
\* writing after the 504 went out throws (headers already sent), also in the
\* catch block, and the handler's promise rejects.
ControllerResponds ==
    /\ hpc = "awaitService" /\ ipc \in {"returned", "thrown"}
    /\ IF headersSent
       THEN /\ hpc' = "rejected"
            /\ UNCHANGED <<headersSent, httpResponse>>
       ELSE /\ hpc' = "responded"
            /\ headersSent' = TRUE
            /\ httpResponse' = IF ipc = "returned" THEN SuccessResponse(result)
                               ELSE ErrorResponse(intelError)
    /\ UNCHANGED <<timer, connection, intelVars, retryVars, pureVars, authVars, batchVars>>

\* res.on('finish'): the response has been handed to the socket, clearTimeout
ResponseFinishes ==
    /\ headersSent /\ connection = "open" /\ timer = "armed"
    /\ timer' = "cleared"
    /\ UNCHANGED <<hpc, headersSent, httpResponse, connection, intelVars, retryVars, pureVars,
                   authVars, batchVars>>

NextTimeout ==
    \/ RequestArrives
    \/ UpstreamResponds
    \/ IntelJoin
    \/ TimerFires
    \/ ClientCloses
    \/ ControllerResponds
    \/ ResponseFinishes

\* timers fire and a resumed handler runs; nothing makes the provider answer
FairTimeout == WF_vars(TimerFires) /\ WF_vars(ControllerResponds) /\ WF_vars(IntelJoin)

SpecTimeout == InitTimeout /\ [][NextTimeout]_vars /\ FairTimeout

-----------------------------------------------------------------------------
(* Claims about withRetry, checked under SpecRetry *)

RetryEnded == rpc \in {"returned", "thrown"}

\* C1: withRetry invokes the operation at most maxRetries+1 times and then
\* ends; it returns on the first successful attempt or throws the last
\* classified error; every attempt that is followed by another one failed
\* with a retryable error (no attempt after a success or a terminal failure).
C1_AttemptsBoundedAndFinal ==
    /\ calls <= maxRetries + 1
    /\ Len(attemptLog) <= calls
    /\ \A i \in 1..(calls - 1) : i <= Len(attemptLog) /\ attemptLog[i] = "retryable"
    /\ Len(attemptLog) = maxRetries + 1 => RetryEnded
    /\ rpc = "returned" =>
          /\ Len(attemptLog) = calls
          /\ attemptLog[calls] = "ok"
          /\ thrown = NoError
    /\ rpc = "thrown" =>
          /\ Len(attemptLog) = calls
          /\ attemptLog[calls] # "ok"
          /\ thrown = lastError
          /\ (attemptLog[calls] = "terminal" \/ calls = maxRetries + 1)

C1_Witness ==
    /\ rpc = "thrown" /\ maxRetries = 3 /\ calls = 4
    /\ attemptLog = <<"retryable", "retryable", "retryable", "retryable">>

\* C2: after k retryable failures followed by a success withRetry has made
\* k+1 attempts and slept baseDelay*2^i ms between attempt i and i+1, in
\* order; with three failures and baseDelay 1000: 4 attempts, 1000, 2000, 4000.
C2_RetryThenSuccessDelays ==
    rpc = "returned" =>
        /\ calls = Len(sleeps) + 1
        /\ \A i \in 1..Len(sleeps) :
              /\ attemptLog[i] = "retryable"
              /\ sleeps[i] = baseDelay * (2 ^ (i - 1))
        /\ (baseDelay = 1000 /\ Len(sleeps) = 3) =>
              (calls = 4 /\ sleeps = <<1000, 2000, 4000>>)

C2_Witness ==
    /\ rpc = "returned" /\ baseDelay = 1000 /\ calls = 4
    /\ sleeps = <<1000, 2000, 4000>>

\* C3: when an attempt fails with HTTP 401 or 402 withRetry throws at once:
\* no backoff sleep follows, no further attempt is made, the thrown error is
\* not retryable; failing so on the first attempt gives exactly one attempt.
C3_TerminalStatusNoRetry ==
    lastError.statusCode \in {401, 402} =>
        /\ rpc = "thrown"
        /\ thrown.statusCode = lastError.statusCode
        /\ thrown.retryable = FALSE
        /\ calls = Len(attemptLog)
        /\ Len(sleeps) = calls - 1
        /\ (attemptLog[1] = "terminal" => (calls = 1 /\ sleeps = <<>>))

C3_Witness ==
    /\ rpc = "thrown" /\ thrown.statusCode = 402 /\ calls = 1 /\ sleeps = <<>>
    /\ maxRetries = 3

-----------------------------------------------------------------------------
(* Claims about getKeywordIntelligence, checked under SpecIntel *)

Range(seq) == {seq[i] : i \in DOMAIN seq}

Issued(c) == c \in inflight \/ resp[c] # NoResp

\* the call was answered and the answer is a failure: a non-2xx status, an
\* envelope without tasks, or a first task whose status is not 20000
CallFailed(c) ==
    /\ resp[c] # NoResp /\ c \notin inflight
    /\ \/ ~resp[c].httpOk
       \/ Len(resp[c].tasks) = 0
       \/ resp[c].tasks[1].status_code # 20000

CallsOfSource(ver, s) ==
    CASE s = "google" -> IF ver = "single" THEN {"keyword", "serp", "paid", "difficulty"}
                         ELSE {"keyword", "serp"}
      [] s = "bing" -> IF ver = "single" THEN {"bing", "bingDifficulty"} ELSE {"bing"}
      [] OTHER -> {"youtube"}

PrimaryCall(s) == FirstCall(PrimaryProc(s))

SourceOfCall(c) ==
    CASE c \in {"keyword", "serp", "paid", "difficulty"} -> "google"
      [] c \in {"bing", "bingDifficulty"} -> "bing"
      [] OTHER -> "youtube"

\* C4: for every completed request total_cost equals the sum of the costs
\* reported by every upstream call executed for it (keyword volume, SERP,
\* paid ads, difficulty; failed ones included).
C4_TotalCostSumsEveryCall ==
    ipc = "returned" => result.total_cost = billed

AdapterFailed(s) == apc[PrimaryProc(s)] = "failed"
AdapterDone(s) == \A p \in ProcsOf(version, s) : apc[p] = "done"

PartialErrorSources(res) ==
    IF "partialErrors" \in DOMAIN res
    THEN {res.partialErrors[i].source : i \in DOMAIN res.partialErrors}
    ELSE {}

MixedOutcome ==
    /\ version = "multi"
    /\ \E s \in Sources : Requested(sources, s) /\ AdapterFailed(s)
    /\ \E s \in Sources : Requested(sources, s) /\ AdapterDone(s)

ExpectedGoogle ==
    LET l1 == AfterKeyword(resp["keyword"])
        l2 == AfterSerp(l1, resp["serp"])
        l3 == IF NeedsPaidCall(l2) THEN AfterPaid(l2, resp["paid"]) ELSE l2
    IN IF version = "single" THEN GoogleDataOut(l3) ELSE MultiGoogleDataOut(l2)

ExpectedOut ==
    [p \in Procs |->
        CASE p = "googleData" -> ExpectedGoogle
          [] p = "bingData" -> BingOutcome(version, resp["bing"]).value
          [] p = "youtube" -> YoutubeOutcome(resp["youtube"]).value
          [] OTHER -> getKeywordDifficultyResult(resp[p])]

ExpectedFailed(s) ==
    CASE s = "google" -> PostResult(resp["keyword"]).threw
                           \/ extractFirstTaskResults(resp["keyword"]).threw
      [] s = "bing" -> BingOutcome(version, resp["bing"]).threw
      [] OTHER -> YoutubeOutcome(resp["youtube"]).threw

ExpectedSources == {s \in Sources : Requested(sources, s) /\ ~ExpectedFailed(s)}

RECURSIVE SumCosts(_, _)
SumCosts(S, cost) ==
    IF S = {} THEN 0
    ELSE LET s == CHOOSE x \in S : TRUE IN cost[s] + SumCosts(S \ {s}, cost)

\* ... and from them the result, without reference to any order of events
ExpectedResult ==
    LET se == [s \in ExpectedSources |->
                  IF version = "single" THEN SingleEntry(s, ExpectedOut)
                  ELSE ExpectedOut[PrimaryProc(s)].data]
        sq == SelectSeq(StageOrder, LAMBDA s : s \in ExpectedSources)
        tc == SumCosts(ExpectedSources,
                       [s \in Sources |->
                           IF version = "single" THEN SingleCost(s, ExpectedOut)
                           ELSE ExpectedOut[PrimaryProc(s)].cost])
    IN BuildResult(se, sq, tc)

CallsOfSameAdapter(c) == CallsOfSource(version, SourceOfCall(c)) \ {c}

-----------------------------------------------------------------------------
(* Claims about one HTTP request, checked under SpecTimeout *)

\* C10: when the outer timeout has answered the request, no upstream call is
\* in flight any more (they were abandoned), getKeywordIntelligence has
\* failed, and the timeout response reports the cost incurred.
C10_TimeoutAbandonsAndReportsCost ==
    httpResponse.status = 504 =>
        /\ inflight = {}
        /\ ipc = "thrown"
        /\ httpResponse.hasCost

Answered == headersSent \/ connection = "closed"

\* What requestTimeout does instead: it sets one timer per HTTP request; when
\* it fires before the controller has answered, the client gets 504
\* REQUEST_TIMEOUT without a cost field, so a request whose client stays
\* connected is always answered.  The timer abandons nothing: the calls in
\* flight, getKeywordIntelligence and the cost it accumulates are as before,
\* and a controller that resumes afterwards cannot answer any more.
TimerAnswersAbandonsNothing ==
    /\ [](httpResponse.status = 504 =>
            /\ httpResponse = TimeoutResponse /\ ~httpResponse.hasCost
            /\ timer = "fired" /\ hpc # "responded")
    /\ [][(timer = "armed" /\ timer' = "fired") =>
            UNCHANGED <<inflight, ipc, apc, billed, totalCost, intelError>>]_vars
    /\ (hpc = "awaitService") ~> Answered

\* the 504 went out while getKeywordIntelligence still awaits an upstream call
TimerFiredWhilePending ==
    /\ httpResponse.status = 504 /\ ipc = "awaiting" /\ inflight = {"paid"}
    /\ billed > 0 /\ connection = "open"

-----------------------------------------------------------------------------
(* Further claims about withRetry, checked under SpecRetry *)

\* C11: when withRetry ends by throwing after one or more failed attempts,
\* the cost carried by the thrown error equals the sum of the costs of all
\* failed attempts (the running total), not only the cost of the last one.
C11_ReportedCostSumsFailedAttempts ==
    rpc = "thrown" => thrown.cost = retryTotalCost

Min(a, b) == IF a <= b THEN a ELSE b

\* C12: every delay withRetry sleeps is min(baseDelay * 2^attempt, MAX_DELAY):
\* no single sleep exceeds the configured 10000 ms.
C12_SleepCappedAtMaxDelay ==
    \A i \in DOMAIN sleeps :
        /\ sleeps[i] = Min(baseDelay * (2 ^ (i - 1)), MAX_DELAY)
        /\ sleeps[i] <= MAX_DELAY

-----------------------------------------------------------------------------
(* Pure functions of the engine, each applied once to an argument          *)

ApplyFrame == UNCHANGED <<pfn, parg, retryVars, intelVars, httpVars, authVars, batchVars>>

\* handleApiError(error)
ApplyHandleApiError ==
    /\ pfn = "handleApiError" /\ ~pdone
    /\ pout' = handleApiError(parg)
    /\ pdone' = TRUE
    /\ ApplyFrame

-----------------------------------------------------------------------------
(* DataForSEOResponseHandler *)

MaxTasks == 2

\* the extractor without the test of an empty list
extractFirstResultItemNoEmptyCheck(r) ==
    IF extractFirstTaskResults(r).threw THEN extractFirstTaskResults(r)
    ELSE IF Len(extractFirstTaskResults(r).value) = 0 THEN Value("undefined")
    ELSE Value(extractFirstTaskResults(r).value[1])

\* extractFirstResultItem(response)
extractFirstResultItem(r) ==
    IF extractFirstTaskResults(r).threw THEN extractFirstTaskResults(r)
    ELSE IF Len(extractFirstTaskResults(r).value) = 0
    THEN Threw(PlainError("No results found in DataForSEO response"))
    ELSE Value(extractFirstTaskResults(r).value[1])

\* the warnings validateResponse pushes for tasks[i..]
RECURSIVE TaskWarnings(_, _)
TaskWarnings(tasks, i) ==
    IF i > Len(tasks) THEN <<>>
    ELSE (IF tasks[i].status_code # 20000
          THEN <<"Task " \o ToString(i) \o " failed: " \o tasks[i].status_message
                   \o " (code: " \o ToString(tasks[i].status_code) \o ")">>
          ELSE <<>>)
         \o (IF tasks[i].resultKind # "array"
             THEN <<"Task " \o ToString(i) \o " has no results">>
             ELSE <<>>)
         \o TaskWarnings(tasks, i + 1)

\* DataForSEOResponseHandler.validateResponse(response)
HandlerValidateResponse(r) ==
    LET statusErrors == IF r.status_code # 20000
                        THEN <<"API request failed: " \o r.status_message
                                 \o " (code: " \o ToString(r.status_code) \o ")">>
                        ELSE <<>>
    IN
    IF r.isNull
    THEN Value([isValid |-> FALSE, errors |-> <<"Response is null or undefined">>,
                warnings |-> <<>>])
    ELSE IF r.tasksKind # "array"
    THEN Value([isValid |-> FALSE,
                errors |-> statusErrors \o <<"Missing or invalid tasks array">>,
                warnings |-> <<>>])
    ELSE IF \E i \in 1..Len(r.tasks) : r.tasks[i].isNull
    THEN Threw(TypeError)
    ELSE Value([isValid |-> statusErrors = <<>>, errors |-> statusErrors,
                warnings |-> (IF Len(r.tasks) = 0 THEN <<"No tasks found in response">>
                              ELSE <<>>)
                             \o TaskWarnings(r.tasks, 1)])

\* successfulTasks.reduce((total, task) => total + (task.result?.length || 0), 0)
RECURSIVE SumResults(_)
SumResults(tasks) ==
    IF tasks = <<>> THEN 0
    ELSE (IF tasks[1].resultKind = "array" THEN Len(tasks[1].result) ELSE 0)
         + SumResults(Tail(tasks))

\* DataForSEOResponseHandler.getResponseSummary(response); `response?.tasks || []`
\* keeps a tasks value that is not an array, and tasks.filter then throws
getResponseSummary(r) ==
    IF HandlerValidateResponse(r).threw THEN HandlerValidateResponse(r)
    ELSE IF ~r.isNull /\ r.tasksKind = "notArray" THEN Threw(TypeError)
    ELSE LET tasks == IF r.isNull \/ r.tasksKind = "missing" THEN <<>> ELSE r.tasks
             successfulTasks == SelectSeq(tasks, LAMBDA t : t.status_code = 20000)
         IN Value([totalCost |-> getTotalCost(r),
                   totalTasks |-> Len(tasks),
                   successfulTasks |-> Len(successfulTasks),
                   failedTasks |-> Len(tasks) - Len(successfulTasks),
                   totalResults |-> SumResults(successfulTasks),
                   warnings |-> HandlerValidateResponse(r).value.warnings])

\* the tasks and envelopes the handler is applied to
PureItems == {"item1", "item2"}
PureResults == {<<>>} \cup {<<a>> : a \in PureItems}
                 \cup {<<a, b>> : a \in PureItems, b \in PureItems}
PureTasks ==
    {NullTask, Task(40501, MaxCost, "null", <<>>), Task(20000, 0, "null", <<>>)}
      \cup {Task(20000, MaxCost, "array", res) : res \in PureResults}
PureTaskLists ==
    UNION {[1..n -> PureTasks] : n \in 0..MaxTasks}
PureEnvelopes ==
    {NullEnvelope}
      \cup {Envelope(s, MaxCost, k, <<>>) : s \in {20000, 40000}, k \in {"missing", "notArray"}}
      \cup {Envelope(s, MaxCost, "array", tasks) : s \in {20000, 40000}, tasks \in PureTaskLists}

ApplyExtractFirstTaskResults ==
    /\ pfn = "extractFirstTaskResults" /\ ~pdone
    /\ pout' = extractFirstTaskResults(parg)
    /\ pdone' = TRUE
    /\ ApplyFrame

ApplyExtractFirstResultItem ==
    /\ pfn = "extractFirstResultItem" /\ ~pdone
    /\ pout' = extractFirstResultItem(parg)
    /\ pdone' = TRUE
    /\ ApplyFrame

ApplyGetResponseSummary ==
    /\ pfn = "getResponseSummary" /\ ~pdone
    /\ pout' = getResponseSummary(parg)
    /\ pdone' = TRUE
    /\ ApplyFrame

-----------------------------------------------------------------------------
(* calculateTrend and calculateAdvancedTrend.  monthlySearches is the list  *)
(* of its search_volume values, or null; the month labels are not modelled. *)
(* A quotient n/d is kept as the pair of n and d > 0.                       *)

MaxMonths == 6

RECURSIVE SumSeq(_)
SumSeq(s) == IF s = <<>> THEN 0 ELSE s[1] + SumSeq(Tail(s))

\* array.slice(-k)
LastK(s, k) == SubSeq(s, IF Len(s) > k THEN Len(s) - k + 1 ELSE 1, Len(s))

\* array.slice(-k, -j) with k > j
SliceFromEnd(s, k, j) == SubSeq(s, IF Len(s) > k THEN Len(s) - k + 1 ELSE 1, Len(s) - j)

\* Math.round(n / d)
RoundDiv(n, d) == (2 * n + d) \div (2 * d)

\* change > t ? `+${Math.round(change)}%` : change < -t ? `${Math.round(change)}%` : 'stable'
\* for change = n / d
PercentOrStable(n, d, t) ==
    IF n > t * d THEN "+" \o ToString(RoundDiv(n, d)) \o "%"
    ELSE IF n < (0 - t) * d THEN ToString(RoundDiv(n, d)) \o "%"
    ELSE "stable"

\* the monthly trend with the thresholds of the quarterly trend
calculateTrendThreshold15(ms) ==
    IF ms.isNull \/ Len(ms.volumes) < 2 THEN "no data"
    ELSE LET recent == LastK(ms.volumes, 3)
             older == SliceFromEnd(ms.volumes, 6, 3)
         IN IF Len(recent) = 0 \/ Len(older) = 0 THEN "no data"
            ELSE IF SumSeq(older) = 0 THEN "no data"
            ELSE PercentOrStable(
                   (SumSeq(recent) * Len(older) - SumSeq(older) * Len(recent)) * 100,
                   SumSeq(older) * Len(recent), 15)

\* calculateTrend(monthlySearches)
calculateTrend(ms) ==
    IF ms.isNull \/ Len(ms.volumes) < 2 THEN "no data"
    ELSE LET recent == LastK(ms.volumes, 3)
             older == SliceFromEnd(ms.volumes, 6, 3)
         IN IF Len(recent) = 0 \/ Len(older) = 0 THEN "no data"
            ELSE IF SumSeq(older) = 0 THEN "no data"
            ELSE PercentOrStable(
                   (SumSeq(recent) * Len(older) - SumSeq(older) * Len(recent)) * 100,
                   SumSeq(older) * Len(recent), 10)

\* the early return of calculateAdvancedTrend
InsufficientTrend ==
    [monthly_trend |-> "insufficient_data", quarterly_trend |-> "insufficient_data",
     yearly_trend |-> "insufficient_data", seasonality |-> "unknown",
     volatility |-> "unknown"]

RECURSIVE MaxOf(_)
MaxOf(s) == IF Len(s) = 1 THEN s[1]
            ELSE IF s[1] >= MaxOf(Tail(s)) THEN s[1] ELSE MaxOf(Tail(s))

RECURSIVE MinOf(_)
MinOf(s) == IF Len(s) = 1 THEN s[1]
            ELSE IF s[1] <= MinOf(Tail(s)) THEN s[1] ELSE MinOf(Tail(s))

\* sum of (n * vol - total)^2, that is n^2 times the sum of (vol - mean)^2
RECURSIVE SquaredDeviations(_, _, _)
SquaredDeviations(s, n, total) ==
    IF s = <<>> THEN 0
    ELSE (n * s[1] - total) * (n * s[1] - total) + SquaredDeviations(Tail(s), n, total)

\* calculateAdvancedTrend after its early return, for at least one month
AdvancedTrendOf(ms) ==
    LET volumes == ms.volumes
        totalMonths == Len(volumes)
        total == SumSeq(volumes)
        lastQuarter == SumSeq(LastK(volumes, 3))
        prevQuarter == SumSeq(SliceFromEnd(volumes, 6, 3))
        currentYear == SumSeq(LastK(volumes, 12))
        previousYear == SumSeq(SliceFromEnd(volumes, 24, 12))
        firstHalf == SumSeq(SubSeq(volumes, 1, 6))
        lastHalf == SumSeq(LastK(volumes, 6))
        maxVolume == MaxOf(volumes)
        minVolume == MinOf(volumes)
        \* (variance / mean^2) = deviations / (totalMonths * total^2), compared
        \* with 0.4^2 = 16/100, 0.3^2 = 9/100 and 0.15^2 = 9/400
        deviations == SquaredDeviations(volumes, totalMonths, total)
        scale == totalMonths * total * total
    IN [monthly_trend |-> calculateTrend(ms),
        quarterly_trend |->
            IF totalMonths >= 6 /\ prevQuarter > 0
            THEN PercentOrStable((lastQuarter - prevQuarter) * 100, prevQuarter, 15)
            ELSE "insufficient_data",
        yearly_trend |->
            IF totalMonths >= 24
            THEN IF previousYear > 0
                 THEN PercentOrStable((currentYear - previousYear) * 100, previousYear, 20)
                 ELSE "insufficient_data"
            ELSE IF totalMonths >= 12 /\ firstHalf > 0
            THEN PercentOrStable((lastHalf - firstHalf) * 100, firstHalf, 25)
            ELSE "insufficient_data",
        year_over_year_growth |->
            IF totalMonths >= 24 /\ previousYear > 0
            THEN <<(currentYear - previousYear) * 100, previousYear>>
            ELSE <<>>,
        seasonality |->
            IF maxVolume > 0 /\ (maxVolume - minVolume) * 100 > 60 * maxVolume THEN "very_high"
            ELSE IF maxVolume > 0 /\ (maxVolume - minVolume) * 100 > 40 * maxVolume THEN "high"
            ELSE IF maxVolume > 0 /\ (maxVolume - minVolume) * 100 > 25 * maxVolume THEN "medium"
            ELSE "low",
        volatility |->
            IF total > 0 /\ deviations * 100 > 16 * scale THEN "very_high"
            ELSE IF total > 0 /\ deviations * 100 > 9 * scale THEN "high"
            ELSE IF total > 0 /\ deviations * 400 > 9 * scale THEN "medium"
            ELSE "low",
        historical_months |-> totalMonths,
        avg_monthly_volume |-> RoundDiv(total, totalMonths)]

\* the function with its early return for an empty list only
calculateAdvancedTrendAnyLength(ms) ==
    IF ms.isNull \/ Len(ms.volumes) < 1 THEN InsufficientTrend ELSE AdvancedTrendOf(ms)

\* calculateAdvancedTrend(monthlySearches)
calculateAdvancedTrend(ms) ==
    IF ms.isNull \/ Len(ms.volumes) < 3 THEN InsufficientTrend ELSE AdvancedTrendOf(ms)

\* the monthly_searches lists the functions are applied to
\* search_volume values (small, the results depend on their ratios only)
Volumes == {0, 1, 3}
MonthlySearches ==
    {[isNull |-> TRUE, volumes |-> <<>>]}
      \cup {[isNull |-> FALSE, volumes |-> v] :
              v \in UNION {[1..n -> Volumes] : n \in 0..MaxMonths}}
      \cup {[isNull |-> FALSE,
             volumes |-> [i \in 1..n |-> IF 2 * i <= n THEN a ELSE b]] :
              n \in {12, 24}, a \in Volumes, b \in Volumes}

ApplyCalculateTrend ==
    /\ pfn = "calculateTrend" /\ ~pdone
    /\ pout' = calculateTrend(parg)
    /\ pdone' = TRUE
    /\ ApplyFrame

ApplyCalculateAdvancedTrend ==
    /\ pfn = "calculateAdvancedTrend" /\ ~pdone
    /\ pout' = calculateAdvancedTrend(parg)
    /\ pdone' = TRUE
    /\ ApplyFrame

-----------------------------------------------------------------------------
(* competition_level and overall_competition.  A competition score is kept  *)
(* in hundredths: 70 is the score 0.7.                                      *)

\* competition_level of getGoogleKeywordData and overall_competition of
\* generateKeywordSummary for a google result with this competition score
CompetitionTiers(competition) ==
    [competition_level |-> CompetitionLevel(competition),
     overall_competition |->
         generateKeywordSummary(
             [google |-> [search_volume |-> 0, competition |-> competition]]
         ).overall_competition]

\* the scores 0, 0.01, ..., 1
CompetitionScores == 0..100

ApplyCompetitionTiers ==
    /\ pfn = "competitionTiers" /\ ~pdone
    /\ pout' = CompetitionTiers(parg)
    /\ pdone' = TRUE
    /\ ApplyFrame

-----------------------------------------------------------------------------
(* analyzeSerpFeatures as an array, and analyzeSerpStrategy *)

MaxSerpItems == 3

\* the features array before duplicates are removed: one push per item of a
\* feature type
RECURSIVE PushedFeatures(_)
PushedFeatures(items) ==
    IF items = <<>> THEN <<>>
    ELSE (IF items[1] \in SerpFeatureTypes THEN <<FeatureName(items[1])>> ELSE <<>>)
         \o PushedFeatures(Tail(items))

\* the array returned as pushed
SpreadOfSetKeepsAll(features) == features

\* [...new Set(features)]: the first occurrence of each element, in order
RECURSIVE SpreadOfSet(_)
SpreadOfSet(features) ==
    IF features = <<>> THEN <<>>
    ELSE LET front == SpreadOfSet(SubSeq(features, 1, Len(features) - 1))
             last == features[Len(features)]
         IN IF \E i \in DOMAIN front : front[i] = last THEN front ELSE Append(front, last)

\* analyzeSerpFeatures(serpResults), with the order of its result
analyzeSerpFeaturesArray(items) == SpreadOfSet(PushedFeatures(items))

\* analyzeSerpStrategy: the switch of the CTR impact estimation
CtrImpactOf(feature) ==
    CASE feature = "featured_snippet" -> 0 - 8
      [] feature = "people_also_ask" -> 0 - 5
      [] feature = "images" -> 0 - 4
      [] feature = "videos" -> 0 - 6
      [] feature = "shopping" -> 0 - 7
      [] feature = "local_pack" -> 0 - 10
      [] feature = "knowledge_graph" -> 0 - 3
      [] feature = "news" -> 0 - 5
      [] feature = "ai_overview" -> 0 - 12
      [] OTHER -> 0 - 2

\* serpFeatures.forEach(feature => ctrImpact -= ...)
RECURSIVE SumCtrImpact(_)
SumCtrImpact(features) ==
    IF features = <<>> THEN 0
    ELSE CtrImpactOf(features[1]) + SumCtrImpact(Tail(features))

\* the features analyzeSerpStrategy has content opportunities for
OpportunityFeatures ==
    {"people_also_ask", "featured_snippet", "images", "videos", "news", "local_pack",
     "shopping", "knowledge_graph", "related_searches", "ai_overview"}

\* analyzeSerpStrategy(serpFeatures); content_opportunities holds, for the two
\* texts of a feature, the feature
analyzeSerpStrategy(serpFeatures) ==
    LET featureCount == Len(serpFeatures)
        ctrImpact == SumCtrImpact(serpFeatures)
    IN [feature_count |-> featureCount,
        organic_competition |->
            IF featureCount >= 4 THEN "very_high"
            ELSE IF featureCount >= 3 THEN "high"
            ELSE IF featureCount >= 2 THEN "medium" ELSE "low",
        estimated_ctr_impact |-> IF ctrImpact > 0 - 50 THEN ctrImpact ELSE 0 - 50,
        content_opportunities |->
            SpreadOfSet(SelectSeq(serpFeatures, LAMBDA f : f \in OpportunityFeatures)),
        competition_indicators |->
            IF featureCount >= 5 THEN "Very high SERP competition"
            ELSE IF featureCount >= 3 THEN "Moderate SERP competition"
            ELSE IF featureCount >= 1 THEN "Some SERP competition"
            ELSE "Clean organic SERP",
        strategic_priority |->
            IF featureCount >= 3 THEN "high_competition_strategy"
            ELSE "standard_seo_approach"]

\* serp_features and serp_analysis of getGoogleKeywordData
SerpAnalysis(items) ==
    [serp_features |-> analyzeSerpFeaturesArray(items),
     serp_analysis |-> analyzeSerpStrategy(analyzeSerpFeaturesArray(items))]

\* the item types of the SERP lists the functions are applied to
SerpItemTypes ==
    {"organic", "featured_snippet", "people_also_ask", "top_stories", "ai_overview", "jobs"}
SerpItemLists ==
    UNION {[1..n -> SerpItemTypes] : n \in 0..MaxSerpItems}
      \cup {<<"ai_overview", "local_pack", "featured_snippet", "shopping", "videos",
              "people_also_ask", "top_stories", "featured_snippet", "local_pack">>,
            <<"featured_snippet", "featured_snippet", "featured_snippet",
              "featured_snippet", "featured_snippet", "featured_snippet",
              "featured_snippet">>}

ApplySerpAnalysis ==
    /\ pfn = "serpAnalysis" /\ ~pdone
    /\ pout' = SerpAnalysis(parg)
    /\ pdone' = TRUE
    /\ ApplyFrame

-----------------------------------------------------------------------------
(* The metric derivation functions run twice on one input.  Date.now() is   *)
(* an input of the function that reads it: startTime is the reading at its  *)
(* entry, endTime the reading at its return.                                *)

MaxClock == 2

\* the result with a clock reading inside paid_competition
analyzePaidCompetitionStamped(items, platform, startTime, endTime) ==
    [paid_competition |-> analyzePaidCompetition(items) @@ [analysed_at |-> endTime],
     processing_time |-> endTime - startTime]

\* the object analyzePaidCompetition resolves to
analyzePaidCompetitionResult(items, platform, startTime, endTime) ==
    [paid_competition |-> analyzePaidCompetition(items),
     processing_time |-> endTime - startTime]

\* the SERP results analyzePaidCompetition is applied to
PaidItemLists ==
    UNION {[1..n -> {"paid", "organic"}] : n \in 0..MaxSerpItems}
      \cup {[i \in 1..8 |-> "paid"]}

\* one run of a metric derivation function that reads no clock
RunMetric(f, input) ==
    CASE f = "calculateTrendTwice" -> calculateTrend(input)
      [] f = "calculateAdvancedTrendTwice" -> calculateAdvancedTrend(input)
      [] f = "analyzeSerpFeaturesTwice" -> analyzeSerpFeaturesArray(input)
      [] f = "analyzeSerpStrategyTwice" -> analyzeSerpStrategy(analyzeSerpFeaturesArray(input))

MetricRuns ==
    {"calculateTrendTwice", "calculateAdvancedTrendTwice", "analyzeSerpFeaturesTwice",
     "analyzeSerpStrategyTwice", "analyzePaidCompetitionTwice"}

\* two runs on the same input; the runs of analyzePaidCompetition each have
\* their own clock readings
ApplyMetricTwice ==
    /\ pfn \in MetricRuns /\ ~pdone
    /\ IF pfn = "analyzePaidCompetitionTwice"
       THEN \E s1 \in 0..MaxClock, s2 \in 0..MaxClock :
              \E e1 \in s1..MaxClock, e2 \in s2..MaxClock :
                 pout' = <<analyzePaidCompetitionResult(parg, "google", s1, e1),
                           analyzePaidCompetitionResult(parg, "google", s2, e2)>>
       ELSE pout' = <<RunMetric(pfn, parg), RunMetric(pfn, parg)>>
    /\ pdone' = TRUE
    /\ ApplyFrame

-----------------------------------------------------------------------------
(* authController.refreshToken, logout and resetPassword for one user.  Each *)
(* await of a prisma call is three steps: the call is sent, the database     *)
(* executes it, the handler resumes.                                         *)

RefreshFrame == UNCHANGED <<retryVars, intelVars, httpVars, pureVars, batchVars>>

\* POST /refresh arrives with a token a client holds: verifyToken accepts it,
\* payload.type is 'refresh', findUserByRefreshToken is called
RefreshStart(p) ==
    /\ rfpc[p] = "idle"
    /\ \E t \in delivered : presented' = [presented EXCEPT ![p] = t]
    /\ rfpc' = [rfpc EXCEPT ![p] = "finding"]
    /\ startedBefore' = [startedBefore EXCEPT ![p] = (ivpc # "done")]
    /\ UNCHANGED <<stored, issued, delivered, userFound, generated, ivpc, ivkind, issuedBefore>>
    /\ RefreshFrame

\* prisma.user.findFirst({where: {refreshToken}})
DbFindByRefreshToken(p) ==
    /\ rfpc[p] = "finding"
    /\ userFound' = [userFound EXCEPT ![p] = (stored = presented[p])]
    /\ rfpc' = [rfpc EXCEPT ![p] = "found"]
    /\ UNCHANGED <<stored, issued, delivered, presented, generated, startedBefore,
                   ivpc, ivkind, issuedBefore>>
    /\ RefreshFrame

\* after the await: 401 without a user, else generateTokenPair and
\* updateUserRefreshToken(user.id, tokens.refreshToken) is called
RefreshAfterFind(p) ==
    /\ rfpc[p] = "found"
    /\ IF ~userFound[p]
       THEN /\ rfpc' = [rfpc EXCEPT ![p] = "unauthorized"]
            /\ UNCHANGED <<issued, generated, issuedBefore>>
       ELSE /\ issued' = issued + 1
            /\ generated' = [generated EXCEPT ![p] = issued + 1]
            /\ issuedBefore' = IF ivpc # "done" THEN issuedBefore \cup {issued + 1}
                               ELSE issuedBefore
            /\ rfpc' = [rfpc EXCEPT ![p] = "updating"]
    /\ UNCHANGED <<stored, delivered, presented, userFound, startedBefore, ivpc, ivkind>>
    /\ RefreshFrame

\* prisma.user.update({where: {id}, data: {refreshToken}})
DbUpdateRefreshToken(p) ==
    /\ rfpc[p] = "updating"
    /\ stored' = generated[p]
    /\ rfpc' = [rfpc EXCEPT ![p] = "updated"]
    /\ UNCHANGED <<issued, delivered, presented, userFound, generated, startedBefore,
                   ivpc, ivkind, issuedBefore>>
    /\ RefreshFrame

\* apiSuccess({tokens})
RefreshResponds(p) ==
    /\ rfpc[p] = "updated"
    /\ rfpc' = [rfpc EXCEPT ![p] = "ok"]
    /\ delivered' = delivered \cup {generated[p]}
    /\ UNCHANGED <<stored, issued, presented, userFound, generated, startedBefore,
                   ivpc, ivkind, issuedBefore>>
    /\ RefreshFrame

\* POST /logout calls updateUserRefreshToken(req.user.id, null);
\* POST /reset-password awaits checkEmailExists first
InvalidateStart ==
    /\ ivpc = "idle"
    /\ \E kind \in {"logout", "reset"} :
         /\ ivkind' = kind
         /\ ivpc' = IF kind = "logout" THEN "updating" ELSE "checking"
    /\ UNCHANGED <<stored, issued, delivered, rfpc, presented, userFound, generated,
                   startedBefore, issuedBefore>>
    /\ RefreshFrame

\* resetPassword: checkEmailExists resolved, resetUserPassword hashed the
\* password and calls prisma.user.update
ResetHashed ==
    /\ ivpc = "checking"
    /\ ivpc' = "updating"
    /\ UNCHANGED <<stored, issued, delivered, rfpc, presented, userFound, generated,
                   startedBefore, ivkind, issuedBefore>>
    /\ RefreshFrame

\* prisma.user.update(...  refreshToken: null)
DbClearRefreshToken ==
    /\ ivpc = "updating"
    /\ stored' = NoToken
    /\ ivpc' = "updated"
    /\ UNCHANGED <<issued, delivered, rfpc, presented, userFound, generated,
                   startedBefore, ivkind, issuedBefore>>
    /\ RefreshFrame

\* apiSuccess: 'Logout successful' / 'Password reset successfully'
InvalidateResponds ==
    /\ ivpc = "updated"
    /\ ivpc' = "done"
    /\ UNCHANGED <<stored, issued, delivered, rfpc, presented, userFound, generated,
                   startedBefore, ivkind, issuedBefore>>
    /\ RefreshFrame

InitAuth ==
    /\ AuthIdle
    /\ RetryIdle /\ maxRetries = MAX_RETRIES /\ baseDelay = BASE_DELAY /\ validating = FALSE
    /\ version = "single" /\ sources = {"google"} /\ IntelIdle
    /\ HttpIdle /\ PureIdle /\ BatchIdle

NextAuth ==
    \/ \E p \in RefreshProcs : RefreshStart(p)
    \/ \E p \in RefreshProcs : DbFindByRefreshToken(p)
    \/ \E p \in RefreshProcs : RefreshAfterFind(p)
    \/ \E p \in RefreshProcs : DbUpdateRefreshToken(p)
    \/ \E p \in RefreshProcs : RefreshResponds(p)
    \/ InvalidateStart
    \/ ResetHashed
    \/ DbClearRefreshToken
    \/ InvalidateResponds

SpecAuth == InitAuth /\ [][NextAuth]_vars

-----------------------------------------------------------------------------
(* The first attempt of withRetry(() => client.post(...)) when the provider *)
(* answers with a non-2xx status                                            *)

NonOkStatuses == {400, 401, 402, 404, 429, 500, 502, 503, 504}

\* the error post throws, what handleApiError makes of it, and what withRetry
\* does in attempt 0
PostAttempt(status) ==
    [thrown |-> PostResult(HttpErrorResponse(status)).error,
     classified |-> handleApiError(PostResult(HttpErrorResponse(status)).error),
     outcome |-> WithRetryOutcome(HttpErrorResponse(status), 0).kind]

ApplyPostAttempt ==
    /\ pfn = "postAttempt" /\ ~pdone
    /\ pout' = PostAttempt(parg)
    /\ pdone' = TRUE
    /\ ApplyFrame

-----------------------------------------------------------------------------
(* BatchProcessor.processBatch.  The processor is the caller's function: an  *)
(* invocation is in flight from the call until its promise settles, whether  *)
(* or not Promise.race still listens to it.  Costs and times are left out.   *)

BatchFrame == UNCHANGED <<retryVars, intelVars, httpVars, pureVars, authVars>>

\* priorityOrder[a.priority || 'normal']
PriorityOrder(priority) ==
    CASE priority = "high" -> 3
      [] priority = "low" -> 1
      [] OTHER -> 2

\* items.sort((a, b) => bPriority - aPriority): a stable sort, high first
SortByPriority(items) ==
    LET ids == [k \in 1..Len(items) |-> k]
    IN  SelectSeq(ids, LAMBDA id : PriorityOrder(items[id]) = 3)
        \o SelectSeq(ids, LAMBDA id : PriorityOrder(items[id]) = 2)
        \o SelectSeq(ids, LAMBDA id : PriorityOrder(items[id]) = 1)

\* sortedItems.slice(i, i + maxConcurrency), as positions and as ids
ChunkPositions(sorted, start) ==
    (start + 1) .. Min(start + finalConfig.maxConcurrency, Len(sorted))

ChunkIds(sorted, start) == {sorted[k] : k \in ChunkPositions(sorted, start)}

ItemSettled(id) == itempc[id] \in {"succeeded", "failed"}

\* the BatchResult an item's closure returned
BatchResultOf(id) == [id |-> id, success |-> itempc[id] = "succeeded"]

\* lines 136-152: the BatchResponse built from results
BuildBatchResponse(items, res) ==
    LET successfulItems == Len(SelectSeq(res, LAMBDA r : r.success))
    IN  [kind |-> "response",
         total_items |-> Len(items),
         successful_items |-> successfulItems,
         failed_items |-> Len(res) - successfulItems,
         results |-> res]

\* the head of the for loop with i = start: the next chunk's closures run up
\* to their first await, or the loop is over and the response is returned
EnterLoop(sorted, start, res) ==
    /\ chunkStart' = start
    /\ batchResults' = res
    /\ IF start < Len(sorted)
         THEN LET chunk == ChunkIds(sorted, start)
                  enters == 0 <= finalConfig.retryAttempts
              IN  /\ bpc' = "awaiting"
                  /\ itempc' = [id \in ItemIds |->
                        IF id \in chunk THEN (IF enters THEN "racing" ELSE "failed")
                        ELSE itempc[id]]
                  /\ inFlight' = [id \in ItemIds |->
                        IF id \in chunk /\ enters THEN inFlight[id] + 1 ELSE inFlight[id]]
                  /\ invoked' = [id \in ItemIds |->
                        IF id \in chunk /\ enters THEN invoked[id] + 1 ELSE invoked[id]]
                  /\ invokedAfterFulfilled' = [id \in ItemIds |->
                        IF id \in chunk /\ enters THEN fulfilled[id]
                        ELSE invokedAfterFulfilled[id]]
                  /\ UNCHANGED batchResponse
         ELSE /\ bpc' = "returned"
              /\ batchResponse' = BuildBatchResponse(batchItems, res)
              /\ UNCHANGED <<itempc, inFlight, invoked, invokedAfterFulfilled>>

\* processBatch is called: the size check, the sort, the first chunk
ProcessBatchCall ==
    /\ bpc = "idle"
    /\ IF Len(batchItems) > finalConfig.maxBatchSize
         THEN /\ bpc' = "threw"
              /\ batchResponse' = [kind |-> "error"]
              /\ UNCHANGED <<sortedItems, chunkStart, itempc, inFlight, invoked,
                             invokedAfterFulfilled, batchResults>>
         ELSE /\ sortedItems' = SortByPriority(batchItems)
              /\ EnterLoop(SortByPriority(batchItems), 0, <<>>)
    /\ UNCHANGED <<finalConfig, batchItems, itemAttempts, fulfilled>>
    /\ BatchFrame

\* the catch block of an item's closure
CatchItem(id) ==
    /\ itemAttempts' = [itemAttempts EXCEPT ![id] = @ + 1]
    /\ itempc' = [itempc EXCEPT ![id] =
            IF itemAttempts[id] + 1 <= finalConfig.retryAttempts THEN "backoff" ELSE "failed"]

\* the invocation Promise.race listens to resolves: the closure returns success
ProcessorFulfils(id) ==
    /\ itempc[id] = "racing"
    /\ itempc' = [itempc EXCEPT ![id] = "succeeded"]
    /\ inFlight' = [inFlight EXCEPT ![id] = @ - 1]
    /\ fulfilled' = [fulfilled EXCEPT ![id] = TRUE]
    /\ UNCHANGED <<finalConfig, batchItems, sortedItems, chunkStart, bpc, itemAttempts, invoked,
                   invokedAfterFulfilled, batchResults, batchResponse>>
    /\ BatchFrame

\* the invocation Promise.race listens to rejects
ProcessorRejects(id) ==
    /\ itempc[id] = "racing"
    /\ CatchItem(id)
    /\ inFlight' = [inFlight EXCEPT ![id] = @ - 1]
    /\ UNCHANGED <<finalConfig, batchItems, sortedItems, chunkStart, bpc, invoked, fulfilled,
                   invokedAfterFulfilled, batchResults, batchResponse>>
    /\ BatchFrame

\* the timer of the race fires first: 'Item processing timeout' is caught,
\* nothing cancels the processor's invocation
ItemTimeout(id) ==
    /\ itempc[id] = "racing"
    /\ CatchItem(id)
    /\ UNCHANGED <<finalConfig, batchItems, sortedItems, chunkStart, bpc, inFlight, invoked,
                   fulfilled, invokedAfterFulfilled, batchResults, batchResponse>>
    /\ BatchFrame

\* invocations of the item that no race listens to any more
Abandoned(id) == inFlight[id] - (IF itempc[id] = "racing" THEN 1 ELSE 0)

\* an invocation that lost its race resolves
AbandonedFulfils(id) ==
    /\ Abandoned(id) > 0
    /\ inFlight' = [inFlight EXCEPT ![id] = @ - 1]
    /\ fulfilled' = [fulfilled EXCEPT ![id] = TRUE]
    /\ UNCHANGED <<finalConfig, batchItems, sortedItems, chunkStart, bpc, itempc, itemAttempts,
                   invoked, invokedAfterFulfilled, batchResults, batchResponse>>
    /\ BatchFrame

\* an invocation that lost its race rejects
AbandonedRejects(id) ==
    /\ Abandoned(id) > 0
    /\ inFlight' = [inFlight EXCEPT ![id] = @ - 1]
    /\ UNCHANGED <<finalConfig, batchItems, sortedItems, chunkStart, bpc, itempc, itemAttempts,
                   invoked, fulfilled, invokedAfterFulfilled, batchResults, batchResponse>>
    /\ BatchFrame

\* the backoff timer fires: the while loop invokes the processor again
BackoffEnds(id) ==
    /\ itempc[id] = "backoff"
    /\ itemAttempts[id] <= finalConfig.retryAttempts
    /\ itempc' = [itempc EXCEPT ![id] = "racing"]
    /\ inFlight' = [inFlight EXCEPT ![id] = @ + 1]
    /\ invoked' = [invoked EXCEPT ![id] = @ + 1]
    /\ invokedAfterFulfilled' = [invokedAfterFulfilled EXCEPT ![id] = fulfilled[id]]
    /\ UNCHANGED <<finalConfig, batchItems, sortedItems, chunkStart, bpc, itemAttempts,
                   fulfilled, batchResults, batchResponse>>
    /\ BatchFrame

\* Promise.all(chunkPromises) resolves: the chunk's results are pushed in
\* chunk order and the loop goes on
ChunkSettles ==
    /\ bpc = "awaiting"
    /\ \A id \in ChunkIds(sortedItems, chunkStart) : ItemSettled(id)
    /\ LET positions == ChunkPositions(sortedItems, chunkStart)
           chunkResults == [k \in 1..Cardinality(positions) |->
                               BatchResultOf(sortedItems[chunkStart + k])]
       IN  EnterLoop(sortedItems, chunkStart + finalConfig.maxConcurrency,
                     batchResults \o chunkResults)
    /\ UNCHANGED <<finalConfig, batchItems, sortedItems, itemAttempts, fulfilled>>
    /\ BatchFrame

Priorities == {"high", "low"}

BatchItemLists == UNION {[1..n -> Priorities] : n \in 0..MaxItems}

InitBatch ==
    /\ \E config \in BatchConfigs, items \in BatchItemLists : BatchIdleWith(config, items)
    /\ RetryIdle /\ maxRetries = MAX_RETRIES /\ baseDelay = BASE_DELAY /\ validating = FALSE
    /\ version = "single" /\ sources = {"google"} /\ IntelIdle
    /\ HttpIdle /\ PureIdle /\ AuthIdle

NextBatch ==
    \/ ProcessBatchCall
    \/ \E id \in ItemIds : ProcessorFulfils(id)
    \/ \E id \in ItemIds : ProcessorRejects(id)
    \/ \E id \in ItemIds : ItemTimeout(id)
    \/ \E id \in ItemIds : AbandonedFulfils(id)
    \/ \E id \in ItemIds : AbandonedRejects(id)
    \/ \E id \in ItemIds : BackoffEnds(id)
    \/ ChunkSettles

SpecBatch == InitBatch /\ [][NextBatch]_vars

-----------------------------------------------------------------------------
(* One application of one pure function *)

PureInputs ==
    [handleApiError |-> OperationErrors,
     extractFirstTaskResults |-> PureEnvelopes,
     extractFirstResultItem |-> PureEnvelopes,
     getResponseSummary |-> PureEnvelopes,
     calculateTrend |-> MonthlySearches,
     calculateAdvancedTrend |-> MonthlySearches,
     competitionTiers |-> CompetitionScores,
     serpAnalysis |-> SerpItemLists,
     calculateTrendTwice |-> MonthlySearches,
     calculateAdvancedTrendTwice |-> MonthlySearches,
     analyzeSerpFeaturesTwice |-> SerpItemLists,
     analyzeSerpStrategyTwice |-> SerpItemLists,
     analyzePaidCompetitionTwice |-> PaidItemLists,
     postAttempt |-> NonOkStatuses]

InitPure ==
    /\ pfn \in DOMAIN PureInputs
    /\ parg \in PureInputs[pfn]
    /\ pout = 0 /\ pdone = FALSE
    /\ RetryIdle /\ maxRetries = MAX_RETRIES /\ baseDelay = BASE_DELAY /\ validating = FALSE
    /\ version = "single" /\ sources = {"google"} /\ IntelIdle
    /\ HttpIdle /\ AuthIdle /\ BatchIdle

NextPure ==
    \/ ApplyHandleApiError
    \/ ApplyExtractFirstTaskResults
    \/ ApplyExtractFirstResultItem
    \/ ApplyGetResponseSummary
    \/ ApplyCalculateTrend
    \/ ApplyCalculateAdvancedTrend
    \/ ApplyCompetitionTiers
    \/ ApplySerpAnalysis
    \/ ApplyMetricTwice
    \/ ApplyPostAttempt

SpecPure == InitPure /\ [][NextPure]_vars

-----------------------------------------------------------------------------
(* Claims about the pure functions, checked under SpecPure *)

Applied(f) == pfn = f /\ pdone

RetryableTransportCodes == {"ECONNREFUSED", "ENOTFOUND", "ETIMEDOUT", "ECONNABORTED"}

\* C13 as stated: handleApiError classifies as retryable every error with
\* HTTP status 429 or any status in 500..599, and every transport error with
\* code ECONNREFUSED, ENOTFOUND, ETIMEDOUT or ECONNABORTED.
C13_Retryable429Any5xxAndTransport ==
    Applied("handleApiError") =>
        /\ (parg.kind = "response" /\ (parg.status = 429 \/ parg.status \in 500..599))
              => pout.retryable
        /\ (parg.kind = "code" /\ parg.code \in RetryableTransportCodes)
              => pout.retryable

\* C13: handleApiError classifies an error with a response as retryable
\* exactly when its HTTP status is 429, 500, 502, 503 or 504 (any other 5xx
\* status, such as 501, is not retryable), and an error without a response
\* exactly when its code is ECONNREFUSED, ENOTFOUND, ETIMEDOUT or ECONNABORTED;
\* a DataForSEOError instance keeps the flag it has.
C13_RetryableListedStatusesAndTransport ==
    Applied("handleApiError") =>
        /\ parg.kind = "response" =>
              (pout.retryable <=> parg.status \in {429, 500, 502, 503, 504})
        /\ parg.kind = "code" =>
              (pout.retryable <=> parg.code \in RetryableTransportCodes)
        /\ parg.kind = "plain" => ~pout.retryable
        /\ parg.kind = "DataForSEOError" => pout.retryable = parg.retryable

C13_Witness ==
    /\ Applied("handleApiError")
    /\ parg.kind = "response" /\ parg.status = 501 /\ ~pout.retryable

Unclassified(error) ==
    \/ error.kind = "response"
         /\ error.status \notin {401, 402, 429} /\ error.status \notin 500..599
    \/ error.kind = "code" /\ error.code \notin RetryableTransportCodes
    \/ error.kind = "plain"

\* C14 as stated: an error matching none of the terminal or retryable rules
\* is classified with retryable=false and statusCode=500.
C14_UnclassifiedIs500NotRetryable ==
    (Applied("handleApiError") /\ Unclassified(parg)) =>
        (pout.retryable = FALSE /\ pout.statusCode = 500)

\* C14: an error matching none of the terminal or retryable rules is
\* classified with retryable=false; its statusCode is the HTTP status of its
\* response when it has one (404 stays 404) and 500 otherwise (an unknown
\* transport code, an error with neither response nor code).
C14_UnclassifiedKeepsHttpStatus ==
    (Applied("handleApiError") /\ Unclassified(parg)) =>
        /\ pout.retryable = FALSE
        /\ pout.statusCode = IF parg.kind = "response" THEN parg.status ELSE 500
        /\ pout.cost = IF parg.kind = "response" THEN parg.cost ELSE 0

C14_Witness ==
    /\ Applied("handleApiError")
    /\ parg.kind = "response" /\ parg.status = 404 /\ parg.cost = 1
    /\ pout.statusCode = 404 /\ ~pout.retryable /\ pout.cost = 1

-----------------------------------------------------------------------------
(* Claims about executeApiCall, checked under SpecRetry *)

\* the envelope fails validation: it is null, its top-level status is not
\* 20000, its tasks are missing or empty, or its first task's status is not 20000
InvalidEnvelope(r) ==
    \/ r.isNull
    \/ r.status_code # 20000
    \/ r.tasksKind = "missing"
    \/ r.tasksKind = "array" /\ Len(r.tasks) = 0
    \/ r.tasksKind = "array" /\ Len(r.tasks) > 0 /\ r.tasks[1].status_code # 20000

\* C15: when the upstream call of executeApiCall returns an envelope that
\* fails validation, that attempt is the last: a non-retryable error is
\* thrown at once, no backoff sleep follows and no further call is made
\* (exactly one attempt when it is the first); a valid envelope is returned.
C15_InvalidEnvelopeThrowsWithoutRetry ==
    (validating /\ lastResponse # NoResp) =>
        IF InvalidEnvelope(lastResponse)
        THEN /\ rpc = "thrown"
             /\ thrown = lastError /\ thrown.retryable = FALSE
             /\ calls = Len(attemptLog) /\ attemptLog[calls] = "terminal"
             /\ Len(sleeps) = calls - 1
             /\ (\A i \in 1..(calls - 1) : attemptLog[i] = "retryable")
             /\ (Len(attemptLog) = 1 => (calls = 1 /\ sleeps = <<>>))
        ELSE rpc = "returned" /\ thrown = NoError

C15_Witness ==
    /\ validating /\ rpc = "thrown" /\ maxRetries = 3 /\ calls = 1 /\ sleeps = <<>>
    /\ lastResponse = TaskFailedEnvelope(1)
    /\ thrown.statusCode = 40501 /\ thrown.cost = 1 /\ ~thrown.retryable

-----------------------------------------------------------------------------
(* Claims about DataForSEOResponseHandler, checked under SpecPure *)

\* the envelope has a first task that is an object
HasFirstTask(r) == ~r.isNull /\ r.tasksKind = "array" /\ Len(r.tasks) > 0

MessageOf(out) == out.error.message

\* C16: extractFirstTaskResults fails for a null envelope, an envelope without
\* a tasks array or with zero tasks (message "no tasks found"), and for a first
\* task whose status_code is not 20000 (the message carries the task's
\* status_message and code); extractFirstResultItem fails in the same cases
\* and when the extracted list is empty; in every other case the first task's
\* result list, or its first item, is returned unchanged.
C16_ExtractorsFailOrReturnUnchanged ==
    /\ Applied("extractFirstTaskResults") =>
         IF ~HasFirstTask(parg)
         THEN pout.threw
              /\ MessageOf(pout) = "Invalid DataForSEO response: no tasks found"
         ELSE IF parg.tasks[1].status_code # 20000
         THEN pout.threw
              /\ (~parg.tasks[1].isNull =>
                    MessageOf(pout) = "DataForSEO task failed: "
                                        \o parg.tasks[1].status_message \o " (code: "
                                        \o ToString(parg.tasks[1].status_code) \o ")")
         ELSE ~pout.threw
              /\ (parg.tasks[1].resultKind = "array" => pout.value = parg.tasks[1].result)
              /\ (parg.tasks[1].resultKind # "array" => pout.value = <<>>)
    /\ Applied("extractFirstResultItem") =>
         IF ~HasFirstTask(parg)
         THEN pout.threw
              /\ MessageOf(pout) = "Invalid DataForSEO response: no tasks found"
         ELSE IF parg.tasks[1].status_code # 20000
         THEN pout.threw
         ELSE IF parg.tasks[1].resultKind # "array" \/ Len(parg.tasks[1].result) = 0
         THEN pout.threw
              /\ MessageOf(pout) = "No results found in DataForSEO response"
         ELSE ~pout.threw /\ pout.value = parg.tasks[1].result[1]

C16_Witness ==
    /\ Applied("extractFirstResultItem")
    /\ parg = Envelope(20000, MaxCost, "array",
                       <<Task(20000, MaxCost, "array", <<>>),
                         Task(20000, MaxCost, "array", <<"item1">>)>>)
    /\ pout.threw /\ MessageOf(pout) = "No results found in DataForSEO response"

ExtractorReturnedUnchanged ==
    /\ Applied("extractFirstTaskResults")
    /\ parg.tasks = <<Task(20000, MaxCost, "array", <<"item2", "item1">>)>>
    /\ ~pout.threw /\ pout.value = <<"item2", "item1">>

\* C17: getResponseSummary returns a summary without throwing for every
\* envelope: null, tasks missing or not an array, failed, empty or null tasks.
C17_SummaryNeverThrows ==
    Applied("getResponseSummary") => ~pout.threw

\* what getResponseSummary does: it throws a TypeError exactly for an envelope
\* whose tasks value is not an array or contains a null task
SummaryThrowsOnNullTaskOrNonArray ==
    Applied("getResponseSummary") =>
        (pout.threw <=>
           /\ ~parg.isNull
           /\ \/ parg.tasksKind = "notArray"
              \/ parg.tasksKind = "array" /\ \E i \in 1..Len(parg.tasks) : parg.tasks[i].isNull)

SummaryThrewOnNullTask ==
    /\ Applied("getResponseSummary")
    /\ parg = Envelope(20000, MaxCost, "array", <<NullTask>>)
    /\ pout.threw /\ pout.error = TypeError

-----------------------------------------------------------------------------
(* Claims about the trend computation, checked under SpecPure *)

\* fewer than two monthly data points (an empty or missing list included)
FewerThanTwoMonths(ms) == ms.isNull \/ Len(ms.volumes) < 2

\* a string of the form `+12%` or `-12%`
IsPercentage(s) ==
    \E k \in 0..1000 : s = "+" \o ToString(k) \o "%" \/ s = ToString(0 - k) \o "%"

TrendIsPercentage ==
    /\ Applied("calculateTrend")
    /\ parg.volumes = <<1, 1, 1, 3, 3, 3>>
    /\ pout = "+200%"

-----------------------------------------------------------------------------
(* Claims about the Google metrics, checked under SpecPure *)

\* C19: for every competition score in [0,1] the level is high iff the score
\* is above 0.7, medium iff it is above 0.4 and at most 0.7, and low otherwise;
\* the scores 0.7 and 0.4 themselves give medium and low.  The same holds for
\* overall_competition of the summary.
C19_CompetitionTiersStrict ==
    Applied("competitionTiers") =>
        /\ (pout.competition_level = "high" <=> parg > 70)
        /\ (pout.competition_level = "medium" <=> (parg > 40 /\ parg <= 70))
        /\ (pout.competition_level = "low" <=> parg <= 40)
        /\ pout.overall_competition = pout.competition_level
        /\ (parg = 70 => pout.competition_level = "medium")
        /\ (parg = 40 => pout.competition_level = "low")

C19_Witness ==
    /\ Applied("competitionTiers") /\ parg = 70
    /\ pout.competition_level = "medium" /\ pout.overall_competition = "medium"

\* the sum of the CTR impacts of the features of a set
RECURSIVE SumCtrImpactOfSet(_)
SumCtrImpactOfSet(S) ==
    IF S = {} THEN 0
    ELSE LET f == CHOOSE x \in S : TRUE IN CtrImpactOf(f) + SumCtrImpactOfSet(S \ {f})

\* C20: analyzeSerpFeatures returns each detected feature exactly once,
\* however many items carry its type, and the estimated CTR impact counts the
\* penalty of each present feature once (not below the floor of -50).
C20_EachFeatureOnce ==
    Applied("serpAnalysis") =>
        LET features == pout.serp_features
            detected == {FeatureName(parg[i]) :
                           i \in {j \in DOMAIN parg : parg[j] \in SerpFeatureTypes}}
        IN /\ \A i, j \in DOMAIN features : features[i] = features[j] => i = j
           /\ Range(features) = detected
           /\ pout.serp_analysis.feature_count = Cardinality(detected)
           /\ pout.serp_analysis.estimated_ctr_impact =
                IF SumCtrImpactOfSet(detected) > 0 - 50
                THEN SumCtrImpactOfSet(detected) ELSE 0 - 50

C20_Witness ==
    /\ Applied("serpAnalysis")
    /\ parg = <<"featured_snippet", "organic", "featured_snippet">>
    /\ pout.serp_features = <<"featured_snippet">>
    /\ pout.serp_analysis.estimated_ctr_impact = 0 - 8

\* the floor of -50 is reached without any repeated penalty
CtrImpactCapped ==
    /\ Applied("serpAnalysis") /\ Len(parg) = 9
    /\ pout.serp_analysis.feature_count = 7
    /\ pout.serp_analysis.estimated_ctr_impact = 0 - 50

-----------------------------------------------------------------------------
(* Determinism of the metric derivation functions, checked under SpecPure *)

-----------------------------------------------------------------------------
(* Claims about the refresh tokens, checked under SpecAuth *)

RefreshFinished(p) == rfpc[p] \in {"idle", "ok", "unauthorized"}

\* C22: after a successful logout or password reset, a refresh request that
\* arrives afterwards is never granted for a token issued before it, and once
\* the refresh requests that were running have finished the user has no
\* stored refresh token.
C22_NoRefreshTokenSurvivesLogout ==
    ivpc = "done" =>
        /\ \A p \in RefreshProcs :
             (~startedBefore[p] /\ rfpc[p] \in {"updating", "updated", "ok"})
                => presented[p] \notin issuedBefore
        /\ (\A p \in RefreshProcs : RefreshFinished(p)) => stored = NoToken

\* the race: the refresh that started before the logout stored its token
\* after the logout cleared the column
RefreshOverwroteLogout ==
    /\ ivpc = "done" /\ ivkind = "logout"
    /\ rfpc["r1"] = "ok" /\ startedBefore["r1"] /\ rfpc["r2"] = "idle"
    /\ stored = generated["r1"] /\ stored # NoToken

\* and the token it stored is then accepted
StoredTokenAcceptedAfterLogout ==
    /\ ivpc = "done"
    /\ rfpc["r2"] = "ok" /\ ~startedBefore["r2"] /\ presented["r2"] \in issuedBefore

-----------------------------------------------------------------------------
(* Claims about the upstream transport, checked under SpecPure *)

\* C23: the error post throws for a non-2xx response carries the HTTP status,
\* so that a 429 or 5xx response is classified retryable and retried, and a
\* 401 or 402 response surfaces with its own status code.
C23_HttpStatusReachesClassification ==
    Applied("postAttempt") =>
        /\ pout.thrown.status = parg
        /\ (parg = 429 \/ parg \in 500..599) =>
              (pout.classified.retryable /\ pout.outcome = "retry")
        /\ parg \in {401, 402} =>
              (pout.classified.statusCode = parg /\ pout.outcome = "throw")

\* what the code does: the error is a plain Error whose status is in its
\* message only; every non-2xx response is classified 500, not retryable, and
\* thrown after the first attempt
PostErrorLosesStatus ==
    Applied("postAttempt") =>
        /\ pout.thrown.kind = "plain" /\ pout.thrown.status = 0
        /\ pout.thrown.message = "HTTP " \o ToString(parg)
        /\ pout.classified.statusCode = 500 /\ ~pout.classified.retryable
        /\ pout.outcome = "throw"

RateLimitNotRetried ==
    Applied("postAttempt") /\ parg = 429 /\ pout.outcome = "throw"

-----------------------------------------------------------------------------
(* Further claims about getKeywordIntelligence, checked under SpecIntel *)

\* C24: a multi-source request in which every requested adapter failed ends
\* with an error; it never returns a result with an empty sources_queried
\* list and no metrics.
C24_AllAdaptersFailedThrows ==
    (version = "multi" /\ ipc = "returned") =>
        /\ result.sources_queried # <<>>
        /\ DOMAIN result.search_engines # {}

\* what the code returns when every adapter failed
AllFailedReturnsEmptyResult ==
    /\ version = "multi" /\ ipc = "returned" /\ sources = {"google", "bing"}
    /\ AdapterFailed("google") /\ AdapterFailed("bing")
    /\ result.sources_queried = <<>> /\ DOMAIN result.search_engines = {}
    /\ result.total_cost = 0 /\ result.summary.best_platform = "unknown"
    /\ intelError = NoThrown

-----------------------------------------------------------------------------
(* Further claims about withRetry, checked under SpecRetry *)

\* C25: withRetry sleeps only between two attempts.  It does not sleep before
\* the first attempt; while it sleeps the attempt before failed retryably and
\* was not the last one allowed, so another attempt follows; when it has
\* returned or thrown the number of sleeps is the number of attempts minus one.
C25_SleepsOnlyBetweenAttempts ==
    /\ rpc = "idle" => sleeps = <<>>
    /\ rpc = "awaiting" => Len(sleeps) = calls - 1
    /\ rpc = "sleeping" =>
          /\ Len(sleeps) = calls
          /\ attemptLog[calls] = "retryable"
          /\ attempt < maxRetries /\ LoopCond(attempt + 1, maxRetries)
    /\ rpc \in {"returned", "thrown"} =>
          /\ calls >= 1 /\ Len(sleeps) = calls - 1
          /\ Len(attemptLog) = calls
          /\ \A i \in 1..(calls - 1) : attemptLog[i] = "retryable"
    /\ rpc = "thrown" => (attemptLog[calls] = "terminal" \/ attempt = maxRetries)
    /\ rpc = "returned" => attemptLog[calls] = "ok"

C25_Witness ==
    /\ rpc = "thrown" /\ maxRetries = 2 /\ attempt = 2 /\ calls = 3
    /\ attemptLog = <<"retryable", "retryable", "retryable">>
    /\ Len(sleeps) = 2

-----------------------------------------------------------------------------
(* The warnings of getResponseSummary, checked under SpecPure *)

\* the task failed or has no result items
FailedOrEmpty(task) ==
    task.status_code # 20000 \/ task.resultKind # "array" \/ Len(task.result) = 0

\* the warnings that name task i
WarningsOfTask(ws, task, i) ==
    {j \in DOMAIN ws :
        \/ ws[j] = "Task " \o ToString(i) \o " has no results"
        \/ ws[j] = "Task " \o ToString(i) \o " failed: " \o task.status_message
                     \o " (code: " \o ToString(task.status_code) \o ")"}

SummarizedTasks == Applied("getResponseSummary") /\ ~pout.threw
                     /\ ~parg.isNull /\ parg.tasksKind = "array"

\* C26: for an envelope with a tasks array the warnings of getResponseSummary
\* hold exactly one warning for each failed or empty task and none for a task
\* that succeeded with results; their number is the number of such tasks.
C26_OneWarningPerFailedOrEmptyTask ==
    SummarizedTasks =>
        /\ \A i \in DOMAIN parg.tasks :
             Cardinality(WarningsOfTask(pout.value.warnings, parg.tasks[i], i))
                = IF FailedOrEmpty(parg.tasks[i]) THEN 1 ELSE 0
        /\ Len(pout.value.warnings)
             = Cardinality({i \in DOMAIN parg.tasks : FailedOrEmpty(parg.tasks[i])})

\* what the code emits: one warning for a failed task, one more for a task
\* whose result is missing or not an array, none for an empty result array,
\* and one for an empty tasks array
WarningsOfTheCode ==
    SummarizedTasks =>
        /\ \A i \in DOMAIN parg.tasks :
             Cardinality(WarningsOfTask(pout.value.warnings, parg.tasks[i], i))
                = (IF parg.tasks[i].status_code # 20000 THEN 1 ELSE 0)
                  + (IF parg.tasks[i].resultKind # "array" THEN 1 ELSE 0)
        /\ Len(pout.value.warnings)
             = Cardinality({i \in DOMAIN parg.tasks : parg.tasks[i].status_code # 20000})
               + Cardinality({i \in DOMAIN parg.tasks : parg.tasks[i].resultKind # "array"})
               + (IF Len(parg.tasks) = 0 THEN 1 ELSE 0)

FailedTaskWarnedTwice ==
    /\ SummarizedTasks
    /\ parg.tasks = <<Task(40501, MaxCost, "null", <<>>)>>
    /\ Len(pout.value.warnings) = 2

EmptyTaskNotWarned ==
    /\ SummarizedTasks
    /\ parg.tasks = <<Task(20000, MaxCost, "array", <<>>)>>
    /\ pout.value.warnings = <<>>

-----------------------------------------------------------------------------
(* The monthly trend, checked under SpecPure *)

\* the sum of s[a..b]
RECURSIVE SumRange(_, _, _)
SumRange(s, a, b) == IF a > b THEN 0 ELSE s[a] + SumRange(s, a + 1, b)

\* the monthly trend of a series v of at least 4 points: the mean of the last
\* 3 points against the mean of the (at most 3) points before them
MonthlyTrendOf(v) ==
    LET n == Len(v)
        first == IF n > 6 THEN n - 5 ELSE 1
        k == (n - 3) - first + 1
        older == SumRange(v, first, n - 3)
        recent == SumRange(v, n - 2, n)
        \* change = num / den percent
        num == (recent * k - older * 3) * 100
        den == older * 3
    IN IF older = 0 THEN "no data"
       ELSE IF num > 10 * den THEN "+" \o ToString((2 * num + den) \div (2 * den)) \o "%"
       ELSE IF num < (0 - 10) * den THEN ToString((2 * num + den) \div (2 * den)) \o "%"
       ELSE "stable"

\* C27 as stated: for every series of at least 2 points the monthly trend is
\* 'stable' or a signed percentage, never a 'no data' or insufficient marker.
C27_TrendFromTwoPoints ==
    /\ (Applied("calculateTrend") /\ ~parg.isNull /\ Len(parg.volumes) >= 2) =>
          (pout = "stable" \/ IsPercentage(pout))
    /\ (Applied("calculateAdvancedTrend") /\ ~parg.isNull /\ Len(parg.volumes) >= 2) =>
          (pout.monthly_trend = "stable" \/ IsPercentage(pout.monthly_trend))

\* C27, as the code has it: the monthly trend compares the mean of the last 3
\* points with the mean of the up to 3 points before them and is 'stable'
\* (|change| <= 10%) or a signed, rounded percentage only for a series of at
\* least 4 points whose earlier points are not all 0; for 2 or 3 points, or
\* an earlier mean of 0, it is 'no data' (monthly_trend of a series of 2
\* points: 'insufficient_data').
C27_TrendFromFourPoints ==
    /\ (Applied("calculateTrend") /\ ~parg.isNull /\ Len(parg.volumes) >= 2) =>
          /\ pout = IF Len(parg.volumes) <= 3 THEN "no data"
                    ELSE MonthlyTrendOf(parg.volumes)
          /\ (Len(parg.volumes) >= 4 /\ pout # "no data") =>
                (pout = "stable" \/ IsPercentage(pout))
    /\ (Applied("calculateAdvancedTrend") /\ ~parg.isNull /\ Len(parg.volumes) >= 2) =>
          pout.monthly_trend = IF Len(parg.volumes) = 2 THEN "insufficient_data"
                               ELSE IF Len(parg.volumes) = 3 THEN "no data"
                               ELSE MonthlyTrendOf(parg.volumes)

C27_Witness ==
    /\ Applied("calculateTrend")
    /\ parg.volumes = <<3, 1, 1, 1>>
    /\ pout = "-67%"

\* two or three points give no trend
ThreePointsNoData ==
    /\ Applied("calculateTrend")
    /\ parg.volumes = <<1, 3, 3>>
    /\ pout = "no data"

-----------------------------------------------------------------------------
(* C28, C29: BatchProcessor.processBatch                                     *)

BatchReturned == bpc = "returned"

\* results holds each input item exactly once
OneResultPerItem ==
    /\ Len(batchResponse.results) = Len(batchItems)
    /\ \A id \in 1..Len(batchItems) :
          Cardinality({k \in DOMAIN batchResponse.results : batchResponse.results[k].id = id}) = 1

\* holds: a returned response has one result per item and its counts add up
BatchResponseComplete ==
    BatchReturned =>
        /\ OneResultPerItem
        /\ batchResponse.successful_items + batchResponse.failed_items
              = batchResponse.total_items

\* holds: the processor is invoked at most retryAttempts + 1 times per item
InvocationsBounded ==
    \A id \in ItemIds : invoked[id] <= finalConfig.retryAttempts + 1

\* holds: an item whose closure returned success is not invoked again
NoInvocationAfterReturnedSuccess ==
    \A id \in ItemIds : itempc[id] = "succeeded" => inFlight[id] = Abandoned(id)

\* C28: every response holds one result per item with counts that add up, the
\* processor of an item is invoked at most retryAttempts + 1 times, and never
\* again after one of its invocations succeeded.
C28_OneResultBoundedInvocations ==
    /\ BatchResponseComplete
    /\ InvocationsBounded
    /\ \A id \in ItemIds : ~invokedAfterFulfilled[id]

\* reachable: an invocation that timed out resolved during the backoff and
\* the processor was invoked once more for the same item
InvokedAgainAfterSuccess ==
    \E id \in ItemIds : invokedAfterFulfilled[id] /\ invoked[id] = 2

TotalInFlight == SumSeq([id \in ItemIds |-> inFlight[id]])

\* holds: the items of a later chunk wait until the chunk before has settled
ChunksInOrder ==
    \A k \in DOMAIN sortedItems, l \in DOMAIN sortedItems :
        (/\ (k - 1) \div finalConfig.maxConcurrency < (l - 1) \div finalConfig.maxConcurrency
         /\ itempc[sortedItems[l]] # "waiting")
            => ItemSettled(sortedItems[k])

\* C29: at most maxConcurrency invocations are in flight, at most one per
\* item also when an invocation timed out and the item is retried, and a chunk
\* starts only when the chunk before it has settled.
C29_ConcurrencyBounded ==
    /\ TotalInFlight <= finalConfig.maxConcurrency
    /\ \A id \in ItemIds : inFlight[id] <= 1
    /\ ChunksInOrder

\* reachable: two invocations of one item in flight after a timeout
TwoInFlightForOneItem ==
    \E id \in ItemIds : inFlight[id] = 2 /\ itempc[id] = "racing"

\* reachable: more invocations in flight than maxConcurrency
MoreInFlightThanMaxConcurrency ==
    TotalInFlight > finalConfig.maxConcurrency

\* reachable: the next chunk runs while an invocation of the chunk before is
\* still in flight
ChunkStartsWithInvocationPending ==
    \E id \in ItemIds, other \in ItemIds :
        ItemSettled(id) /\ inFlight[id] > 0 /\ itempc[other] = "racing"

-----------------------------------------------------------------------------
(* C30: requestTimeout and the route handler, checked under SpecTimeout *)

\* C30: at most one response is written for a request: a response that went
\* out is never replaced, so after the 504 of the timeout the handler's
\* success or error response is not written, and after the handler's
\* response the timeout sends no 504.
C30_AtMostOneResponseWritten ==
    /\ [][headersSent => (headersSent' /\ httpResponse' = httpResponse)]_vars
    /\ [](hpc = "responded" => httpResponse.status # 504)
    /\ [](hpc = "rejected" => httpResponse = TimeoutResponse)

\* the handler resumed after the 504 went out and its response was not written
C30_Witness ==
    /\ hpc = "rejected" /\ ipc = "returned" /\ timer = "fired"
    /\ httpResponse = TimeoutResponse /\ connection = "open"

\* the timer fired after the handler's response and before 'finish': no 504
TimerFiredAfterResponse ==
    /\ hpc = "responded" /\ timer = "fired" /\ httpResponse.status = 200
=============================================================================
